---- MODULE Spec2Model ----
(***************************************************************************)
(* Model of composify's resolution / construction engine:                  *)
(*   - the rule registry buckets (TypedRegistry behind RuleRegistry),      *)
(*   - the instance container read by ContainerInstanceProvider,           *)
(*   - BlueprintResolver (memo, tracing, modes, permutation, ordering),    *)
(*   - the synchronous Builder (cache, save sink).                         *)
(***************************************************************************)
EXTENDS Integers, Sequences, FiniteSets, TLC

(***************************************************************************)
(* Bounds of the model.                                                    *)
(***************************************************************************)
MaxRules == 3
MaxResolves == 2
MaxBuilds == 2
MaxInstances == 2
MaxCallers == 2

(***************************************************************************)
(* Resolution modes (resolutions.py).  A mode is kept as a non-empty       *)
(* sequence of resolution types; the string form "x" of the source is the  *)
(* one-element sequence <<x>>.                                              *)
(***************************************************************************)
EXHAUSTIVE == "exhaustive"
SELECT_FIRST == "select_first"
UNIQUE == "unique"
RESOLUTION_TYPES == {EXHAUSTIVE, UNIQUE, SELECT_FIRST}
DEFAULT_RESOLUTION_MODE == <<UNIQUE>>
NoMode == <<>>

is_resolution_mode(val) == \A i \in 1..Len(val) : val[i] \in RESOLUTION_TYPES

\* split_resolution: (current type, mode of the next depth); the last
\* element repeats for all deeper levels.
split_resolution(resolution) ==
    IF Len(resolution) > 1
    THEN <<resolution[1], Tail(resolution)>>
    ELSE <<resolution[1], <<resolution[1]>>>>

(***************************************************************************)
(* Keys: a base type plus the Resolution qualifier it carries ("none" when *)
(* it carries no Resolution qualifier).                                    *)
(***************************************************************************)
Types == {"A", "B", "C"}
NoRes == "none"
Key(t) == [type |-> t, res |-> NoRes]
get_type(key) == key.type
Annotate(key, mode) == [type |-> key.type, res |-> mode]

(***************************************************************************)
(* The rules a client may register (ConstructRule, rules.py).  ret is what *)
(* the rule's function returns when called: a value or None.               *)
(***************************************************************************)
Rule(n, out, params, opt, ret) ==
    [canonical_name |-> n, output_type |-> out, parameter_types |-> params,
     is_async |-> FALSE, is_optional |-> opt, priority |-> 0, ret |-> ret]

RuleA0   == Rule("a0", "A", <<>>, FALSE, "val")
RuleAOpt == Rule("aopt", "A", <<>>, TRUE, "none")
RuleBA   == Rule("ba", "A", <<<<"b", Key("B")>>>>, FALSE, "val")
RuleAB   == Rule("ab", "B", <<<<"a", Key("A")>>>>, FALSE, "val")
RuleB0   == Rule("b0", "B", <<>>, FALSE, "val")
RuleBB   == Rule("bb", "B", <<<<"b", Key("B")>>>>, FALSE, "val")
RuleC2   == Rule("c2", "C", <<<<"x", Key("A")>>, <<"y", Key("B")>>>>, FALSE, "val")
RuleUniverse == {RuleA0, RuleAOpt, RuleBA, RuleAB, RuleB0, RuleBB, RuleC2}

\* Rules the builders are exercised with besides: an async rule (a coroutine
\* function), a rule declared to return B whose function returns None, and
\* an optional rule with a parameter whose function returns None.
RuleBAsync == [Rule("basync", "B", <<>>, FALSE, "val") EXCEPT !.is_async = TRUE]
RuleBNone  == Rule("bnone", "B", <<>>, FALSE, "none")
RuleCOpt   == Rule("copt", "C", <<<<"a", Key("A")>>>>, TRUE, "none")

\* A rule whose parameter is declared Annotated[A, Exhaustive].
RuleCEx == Rule("cex", "C", <<<<"a", Annotate(Key("A"), EXHAUSTIVE)>>>>, FALSE, "val")

\* An optional rule whose function returns a value.
RuleAOptVal == Rule("aoptv", "A", <<>>, TRUE, "val")
AllRules == RuleUniverse \cup {RuleBAsync, RuleBNone, RuleCOpt, RuleCEx, RuleAOptVal}

(***************************************************************************)
(* Container wrappers (InstanceWrapper, container.py).  provided_by is the *)
(* ProvidedBy attribute ("none" when the wrapper was added by the user).   *)
(***************************************************************************)
Wrapper(n, t, prim, by) ==
    [instance_name |-> n, instance_type |-> t, is_primary |-> prim,
     provided_by |-> by]
WA0 == Wrapper("A_0", "A", FALSE, "none")
WA1 == Wrapper("A_1", "A", FALSE, "none")
WB0 == Wrapper("B_0", "B", FALSE, "none")
ContainerConfigs == {<<>>, <<WB0>>, <<WA0, WA1>>}

(***************************************************************************)
(* Errors.  Every error is a record of the same shape.                     *)
(***************************************************************************)
Err(t, key, traces, errors, solutions) ==
    [type |-> t, key |-> key, traces |-> traces, errors |-> errors,
     solutions |-> solutions]
NoKey == [type |-> "none", res |-> NoRes]
NoErr == Err("none", NoKey, <<>>, <<>>, <<>>)
NoConstructorError(key, traces) ==
    Err("NoConstructorError", key, traces, <<>>, <<>>)
CyclicDependencyError(key, traces) ==
    Err("CyclicDependencyError", key, traces, <<>>, <<>>)
MultipleDependencyResolutionError(key, solutions, traces) ==
    Err("MultipleDependencyResolutionError", key, traces, <<>>, solutions)
ResolutionFailureError(key, traces, errors) ==
    Err("ResolutionFailureError", key, traces, errors, <<>>)
AmbiguousInstanceError(key) ==
    Err("AmbiguousInstanceError", key, <<>>, <<>>, <<>>)
InvalidResolutionModeError(key) ==
    Err("InvalidResolutionModeError", key, <<>>, <<>>, <<>>)

(***************************************************************************)
(* Small helpers on sequences and integer tuples.                          *)
(***************************************************************************)
RECURSIVE TupleLess(_, _)
\* Python's lexicographic tuple comparison a < b.
TupleLess(a, b) ==
    IF b = <<>> THEN FALSE
    ELSE IF a = <<>> THEN TRUE
    ELSE IF a[1] # b[1] THEN a[1] < b[1]
    ELSE TupleLess(Tail(a), Tail(b))

InsertAt(s, i, e) == SubSeq(s, 1, i) \o <<e>> \o SubSeq(s, i + 1, Len(s))

RECURSIVE ConcatAll(_)
ConcatAll(ss) == IF ss = <<>> THEN <<>> ELSE Head(ss) \o ConcatAll(Tail(ss))

SeqContains(s, e) == \E i \in 1..Len(s) : s[i] = e

(***************************************************************************)
(* TypedRegistry with the default collator (_registry.py).                 *)
(***************************************************************************)
\* The classes registry keys are taken from besides the rule types: Derived
\* is a subclass of Base.
Classes == {"Base", "Derived", "Other"}

\* type.mro()
Mro(t) == IF t = "Derived" THEN <<"Derived", "Base", "object">> ELSE <<t, "object">>
MroLen(t) == Len(Mro(t))

\* Entry.ordering
Ordering(entry) == <<0 - entry.priority, MroLen(entry.output_type)>>

RECURSIVE BisectRight(_, _, _, _)
\* bisect.bisect_right with key=Entry.ordering, on 0-based lo/hi.
BisectRight(entries, x, lo, hi) ==
    IF lo < hi
    THEN LET mid == (lo + hi) \div 2 IN
         IF TupleLess(x, Ordering(entries[mid + 1]))
         THEN BisectRight(entries, x, lo, mid)
         ELSE BisectRight(entries, x, mid + 1, hi)
    ELSE lo

\* An insertion at the end of the bucket.
Insort_AtEnd(entries, entry) == Append(entries, entry)

\* bisect.insort(entries, entry, key=Entry.ordering)
Insort(entries, entry) ==
    InsertAt(entries, BisectRight(entries, Ordering(entry), 0, Len(entries)), entry)

\* DefaultEntriesCollator.collate_entries raises DuplicatedEntryError when an
\* equal entry is present.
CollateRaises(entry, entries) == SeqContains(entries, entry)

\* TypedRegistry.add_entry for an entry whose key has no base but itself.
AddEntryRaises(reg, entry) ==
    /\ reg[entry.output_type] # <<>>
    /\ CollateRaises(entry, reg[entry.output_type])

add_entry(reg, entry) ==
    LET t == entry.output_type IN
    IF reg[t] = <<>>
    THEN [reg EXCEPT ![t] = <<entry>>]
    ELSE [reg EXCEPT ![t] = Insort(reg[t], entry)]

\* TypedRegistry.get for a key without attribute tags.
RegistryGet(reg, key) == reg[get_type(key)]

RegistrySize(reg) ==
    LET RECURSIVE Sum(_)
        Sum(S) == IF S = {} THEN 0
                  ELSE LET t == CHOOSE x \in S : TRUE IN Len(reg[t]) + Sum(S \ {t})
    IN Sum(Types)

(***************************************************************************)
(* TypedRegistry in full (_registry.py): entries with attribute tags, keys *)
(* with attribute tags and the DisallowSubclass qualifier, classes with    *)
(* base classes.  _entries is a function from the types that have a        *)
(* bucket to the bucket.                                                   *)
(***************************************************************************)
Entry(n, t, attrs, prio) ==
    [canonical_name |-> n, output_type |-> t, attributes |-> attrs,
     priority |-> prio]

\* A lookup key: Annotated[type, *attributes, DisallowSubclass(...)];
\* disallow is "none" when the key carries no DisallowSubclass qualifier.
LookupKey(t, attrs, disallow) ==
    [type |-> t, attributes |-> attrs, disallow |-> disallow]

\* types.resolve_base_types: the mro without object, as a set.
resolve_base_types(t) == {Mro(t)[i] : i \in 1..Len(Mro(t))} \ {"object"}

\* One of the orders in which the set of base types is iterated.
BaseOrder(t, rev) ==
    LET ms == SelectSeq(Mro(t), LAMBDA b : b \in resolve_base_types(t))
    IN IF rev THEN [i \in 1..Len(ms) |-> ms[Len(ms) + 1 - i]] ELSE ms

RegOk(reg) == [reg |-> reg, raises |-> "none"]
RegRaise(reg, exc) == [reg |-> reg, raises |-> exc]

\* A collator that inserts without looking for an equal entry.
collate_entries_NoDuplicateTest(reg, key, entry) ==
    RegOk([reg EXCEPT ![key] = Insort(reg[key], entry)])

\* DefaultEntriesCollator.collate_entries on the bucket of key.
collate_entries(reg, key, entry) ==
    IF SeqContains(reg[key], entry)
    THEN RegRaise(reg, "DuplicatedEntryError")
    ELSE RegOk([reg EXCEPT ![key] = Insort(reg[key], entry)])

\* TypedRegistry._add_entry
add_entry_to(reg, key, entry) ==
    IF key \in DOMAIN reg
    THEN collate_entries(reg, key, entry)
    ELSE RegOk((key :> <<entry>>) @@ reg)

\* list.remove: the first element equal to entry is dropped.
ListRemove(entries, entry) ==
    LET i == CHOOSE j \in 1..Len(entries) :
                 entries[j] = entry /\ \A h \in 1..(j - 1) : entries[h] # entry
    IN SubSeq(entries, 1, i - 1) \o SubSeq(entries, i + 1, Len(entries))

Without(reg, key) == [k \in DOMAIN reg \ {key} |-> reg[k]]

\* TypedRegistry._remove_entry: list.remove raises ValueError when the
\* entry is not in the bucket; an emptied bucket is deleted.
remove_entry_from(reg, key, entry) ==
    IF key \notin DOMAIN reg THEN RegOk(reg)
    ELSE IF ~SeqContains(reg[key], entry) THEN RegRaise(reg, "ValueError")
    ELSE IF ListRemove(reg[key], entry) = <<>> THEN RegOk(Without(reg, key))
    ELSE RegOk([reg EXCEPT ![key] = ListRemove(reg[key], entry)])

RECURSIVE ForEachBase(_, _, _, _, _)
\* The loops of add_entry and remove_entry over the base types, ended by
\* the first error.
ForEachBase(r, bases, j, entry, adding) ==
    IF r.raises # "none" \/ j > Len(bases) THEN r
    ELSE ForEachBase(IF adding THEN add_entry_to(r.reg, bases[j], entry)
                     ELSE remove_entry_from(r.reg, bases[j], entry),
                     bases, j + 1, entry, adding)

\* TypedRegistry.add_entry
TypedRegistry_add_entry(reg, entry, rev) ==
    ForEachBase(RegOk(reg), BaseOrder(entry.output_type, rev), 1, entry, TRUE)

\* TypedRegistry.remove_entry
TypedRegistry_remove_entry(reg, entry, rev) ==
    ForEachBase(RegOk(reg), BaseOrder(entry.output_type, rev), 1, entry, FALSE)

\* type(x) is context.key: the class of the entry object against the
\* lookup key, which is a class only when it carries no annotation.
EntryClass == "ConstructRule"
TypeIs(x, key) ==
    /\ key.attributes = {} /\ key.disallow = "none"
    /\ EntryClass = key.type

\* DefaultEntriesFilterer.filter_entries
AttributeFiltered(entries, key) ==
    IF key.attributes # {}
    THEN SelectSeq(entries, LAMBDA e : key.attributes \subseteq e.attributes)
    ELSE entries

SubclassFiltered(entries, key) ==
    IF entries # <<>> /\ key.disallow = "true"
    THEN SelectSeq(entries, LAMBDA x : TypeIs(x, key))
    ELSE entries

filter_entries(entries, key) ==
    SubclassFiltered(AttributeFiltered(entries, key), key)

\* TypedRegistry._get_entries
get_entries(reg, key) ==
    IF key.type \in DOMAIN reg THEN filter_entries(reg[key.type], key) ELSE <<>>

\* MemoizedTypeResolver.resolve_sub_types: no sub type is ever recorded.
resolve_sub_types(key) == <<key>>

\* TypedRegistry.get with the default, covariant variance.
TypedRegistry_get(reg, key) ==
    ConcatAll([i \in 1..Len(resolve_sub_types(key)) |->
                  get_entries(reg, resolve_sub_types(key)[i])])

(***************************************************************************)
(* Container (container.py): instances in wrappers, indexed by name in a   *)
(* dict and by type in a TypedRegistry with the container's collator.      *)
(***************************************************************************)
\* An object of a frozen dataclass: equal to the objects of its class with
\* its value.
Instance(cls, v) == [class |-> cls, value |-> v]
NoInstance == Instance("", "")

\* name=None
NoName == ""

InstanceWrapper(instance, n, prim) ==
    [instance |-> instance, instance_type |-> instance.class,
     instance_name |-> n, is_primary |-> prim, priority |-> 0]

\* InstanceWrapper.__eq__: the instance field has compare=False.
WrapperEq(a, b) == [a EXCEPT !.instance = b.instance] = b

WrapperIn(bucket, w) == \E i \in 1..Len(bucket) : WrapperEq(bucket[i], w)

\* InstanceWrapper.ordering (Entry.ordering with key = instance_type)
WrapperOrdering(w) == <<0 - w.priority, MroLen(w.instance_type)>>

RECURSIVE WrapperBisectRight(_, _, _, _)
\* bisect.bisect_right with key=InstanceWrapper.ordering
WrapperBisectRight(bucket, x, lo, hi) ==
    IF lo < hi
    THEN LET mid == (lo + hi) \div 2 IN
         IF TupleLess(x, WrapperOrdering(bucket[mid + 1]))
         THEN WrapperBisectRight(bucket, x, lo, mid)
         ELSE WrapperBisectRight(bucket, x, mid + 1, hi)
    ELSE lo

RECURSIVE CollateLoop(_, _, _, _)
\* ContainerDefaultEntriesCollator.collate_entries, from the other at j.
CollateLoop(reg, key, w, j) ==
    IF j > Len(reg[key])
    THEN RegOk([reg EXCEPT ![key] =
                   InsertAt(reg[key],
                            WrapperBisectRight(reg[key], WrapperOrdering(w),
                                               0, Len(reg[key])), w)])
    ELSE IF w.instance_name = reg[key][j].instance_name
    THEN RegRaise(reg, "ConflictingInstanceNameError")
    ELSE IF w.is_primary /\ reg[key][j].is_primary
    THEN RegRaise(reg, "MultiplePrimaryInstanceError")
    ELSE CollateLoop(reg, key, w, j + 1)

\* TypedRegistry._add_entry with the container's collator
add_wrapper_to(reg, key, w) ==
    IF key \in DOMAIN reg
    THEN CollateLoop(reg, key, w, 1)
    ELSE RegOk((key :> <<w>>) @@ reg)

\* list.remove with InstanceWrapper.__eq__
WrapperListRemove(bucket, w) ==
    LET i == CHOOSE j \in 1..Len(bucket) :
                 WrapperEq(bucket[j], w)
                 /\ \A h \in 1..(j - 1) : ~WrapperEq(bucket[h], w)
    IN SubSeq(bucket, 1, i - 1) \o SubSeq(bucket, i + 1, Len(bucket))

\* TypedRegistry._remove_entry
remove_wrapper_from(reg, key, w) ==
    IF key \notin DOMAIN reg THEN RegOk(reg)
    ELSE IF ~WrapperIn(reg[key], w) THEN RegRaise(reg, "ValueError")
    ELSE IF WrapperListRemove(reg[key], w) = <<>> THEN RegOk(Without(reg, key))
    ELSE RegOk([reg EXCEPT ![key] = WrapperListRemove(reg[key], w)])

RECURSIVE ForEachBaseOfWrapper(_, _, _, _, _)
\* TypedRegistry.add_entry and remove_entry: the loop over the base types
\* of the wrapper's type, ended by the first error.
ForEachBaseOfWrapper(r, bases, j, w, adding) ==
    IF r.raises # "none" \/ j > Len(bases) THEN r
    ELSE ForEachBaseOfWrapper(IF adding THEN add_wrapper_to(r.reg, bases[j], w)
                              ELSE remove_wrapper_from(r.reg, bases[j], w),
                              bases, j + 1, w, adding)

\* A container: its two indexes.
ContainerOf(by_name, by_type) == [by_name |-> by_name, by_type |-> by_type]
ContainerOk(c) == [c |-> c, raises |-> "none"]
ContainerRaise(c, exc) == [c |-> c, raises |-> exc]

\* Container._resolve_name: <type name>_<i> for the first i not in use.
GeneratedName(by_name, instance) ==
    instance.class \o "_" \o ToString(
        CHOOSE i \in 0..Cardinality(DOMAIN by_name) :
            /\ (instance.class \o "_" \o ToString(i)) \notin DOMAIN by_name
            /\ \A h \in 0..(i - 1) :
                 (instance.class \o "_" \o ToString(h)) \in DOMAIN by_name)

\* Container.add, the name decided: the by-name index is written, then the
\* wrapper goes through TypedRegistry.add_entry.
AddNamed(c, w, rev) ==
    LET r == ForEachBaseOfWrapper(RegOk(c.by_type), BaseOrder(w.instance_type, rev),
                                  1, w, TRUE)
    IN [c |-> ContainerOf((w.instance_name :> w) @@ c.by_name, r.reg),
        raises |-> r.raises]

\* Container.add(instance, name=name, is_primary=is_primary)
Container_add(c, instance, name, is_primary, rev) ==
    IF name = NoName
    THEN AddNamed(c, InstanceWrapper(instance, GeneratedName(c.by_name, instance),
                                     is_primary), rev)
    ELSE IF name \in DOMAIN c.by_name
    THEN ContainerRaise(c, "ConflictingInstanceNameError")
    ELSE AddNamed(c, InstanceWrapper(instance, name, is_primary), rev)

\* TypedRegistry.get of the container for a plain type
WrappersOfType(c, t) == IF t \in DOMAIN c.by_type THEN c.by_type[t] ELSE <<>>

RECURSIVE RemoveLoop(_, _, _)
\* The loop of Container.remove: the value of the loop variable when the
\* loop ends, at the first wrapper holding an equal instance or, without
\* one, after the last wrapper.
RemoveLoop(wrappers, instance, j) ==
    IF wrappers[j].instance = instance \/ j = Len(wrappers)
    THEN wrappers[j]
    ELSE RemoveLoop(wrappers, instance, j + 1)

\* TypedRegistry.remove_entry(wrapper), then del _mapping_by_name[name]
RemoveWrapper(c, w, rev) ==
    LET r == ForEachBaseOfWrapper(RegOk(c.by_type), BaseOrder(w.instance_type, rev),
                                  1, w, FALSE)
    IN IF r.raises # "none" THEN ContainerRaise(ContainerOf(c.by_name, r.reg), r.raises)
       ELSE IF w.instance_name \notin DOMAIN c.by_name
       THEN ContainerRaise(ContainerOf(c.by_name, r.reg), "KeyError")
       ELSE ContainerOk(ContainerOf(Without(c.by_name, w.instance_name), r.reg))

\* Container.remove(instance)
Container_remove(c, instance, rev) ==
    IF WrappersOfType(c, instance.class) = <<>>
    THEN ContainerOk(c)
    ELSE RemoveWrapper(c, RemoveLoop(WrappersOfType(c, instance.class), instance, 1),
                       rev)

\* Container.remove_by_name(name): the by-name entry is deleted, then the
\* wrapper leaves the registry.
Container_remove_by_name(c, name, rev) ==
    IF name \notin DOMAIN c.by_name
    THEN ContainerRaise(c, "InstanceOfNameNotFoundError")
    ELSE LET r == ForEachBaseOfWrapper(RegOk(c.by_type),
                                       BaseOrder(c.by_name[name].instance_type, rev),
                                       1, c.by_name[name], FALSE)
         IN [c |-> ContainerOf(Without(c.by_name, name), r.reg), raises |-> r.raises]

\* The names of the wrappers a container holds in either index.
NamesHeld(c) ==
    DOMAIN c.by_name
    \cup UNION {{c.by_type[t][i].instance_name : i \in 1..Len(c.by_type[t])} :
                   t \in DOMAIN c.by_type}

\* Container.get_by_name(name)
Container_get_by_name(c, name) ==
    IF name \in DOMAIN c.by_name
    THEN [raises |-> "none", instance |-> c.by_name[name].instance]
    ELSE [raises |-> "InstanceOfNameNotFoundError", instance |-> NoInstance]

\* Container.get(type_), through Container.get_wrapper
Container_get(c, t) ==
    LET ws == WrappersOfType(c, t)
        prim == SelectSeq(ws, LAMBDA w : w.is_primary)
    IN IF ws = <<>> THEN [raises |-> "InstanceOfTypeNotFoundError", instance |-> NoInstance]
       ELSE IF Len(ws) = 1 THEN [raises |-> "none", instance |-> ws[1].instance]
       ELSE IF Len(prim) > 1 THEN [raises |-> "MultiplePrimaryInstanceError", instance |-> NoInstance]
       ELSE IF Len(prim) = 1 THEN [raises |-> "none", instance |-> prim[1].instance]
       ELSE [raises |-> "AmbiguousInstanceError", instance |-> NoInstance]

\* Container.get_all(type_)
Container_get_all(c, t) ==
    [i \in 1..Len(WrappersOfType(c, t)) |-> WrappersOfType(c, t)[i].instance]

(***************************************************************************)
(* Providers (provider.py).                                                *)
(***************************************************************************)
Constructor(source, constructor, is_async, is_optional, output_type, deps) ==
    [source |-> source, constructor |-> constructor, is_async |-> is_async,
     is_optional |-> is_optional, output_type |-> output_type,
     dependencies |-> deps]

\* Container.get_wrapper: the wrappers registered for the key's type; one
\* wrapper is returned as is, several need exactly one primary.
WrappersOf(cont, key) == SelectSeq(cont, LAMBDA w : w.instance_type = get_type(key))

get_wrapper(cont, key) ==
    LET ws == WrappersOf(cont, key)
        prim == SelectSeq(ws, LAMBDA w : w.is_primary)
    IN IF ws = <<>> THEN [raises |-> "InstanceOfTypeNotFoundError", wrapper |-> <<>>]
       ELSE IF Len(ws) = 1 THEN [raises |-> "none", wrapper |-> <<ws[1]>>]
       ELSE IF Len(prim) > 1 THEN [raises |-> "MultiplePrimaryInstanceError", wrapper |-> <<>>]
       ELSE IF Len(prim) = 1 THEN [raises |-> "none", wrapper |-> <<prim[1]>>]
       ELSE [raises |-> "AmbiguousInstanceError", wrapper |-> <<>>]

\* The optionality a provider tags its Constructor with.  provider.py builds
\* its Constructors without the is_optional field that constructor.py and
\* the resolver require; the providers are documented to tag a rule's
\* Constructor with the rule's optionality, and a stored instance is a value.
RuleOptionality(rule) == rule.is_optional
InstanceOptionality == FALSE

\* ContainerInstanceProvider.provide_for_type: only InstanceNotFoundError is
\* swallowed; a wrapper tagged ProvidedBy is not offered.
ContainerProvide(cont, key) ==
    LET got == get_wrapper(cont, key) IN
    IF got.raises = "InstanceOfTypeNotFoundError"
    THEN [exc |-> NoErr, plans |-> <<>>]
    ELSE IF got.raises # "none"
    THEN [exc |-> Err(got.raises, key, <<>>, <<>>, <<>>), plans |-> <<>>]
    ELSE LET w == got.wrapper[1] IN
         IF w.provided_by # "none"
         THEN [exc |-> NoErr, plans |-> <<>>]
         ELSE [exc |-> NoErr,
               plans |-> <<Constructor("container::" \o w.instance_name,
                                       "inst:" \o w.instance_name,
                                       FALSE, InstanceOptionality, key, <<>>)>>]

\* RuleBasedConstructorProvider.provide_for_type
RuleProvide(reg, key) ==
    LET rs == RegistryGet(reg, key) IN
    [i \in 1..Len(rs) |->
        Constructor("rule::" \o rs[i].canonical_name, rs[i].canonical_name,
                    rs[i].is_async, RuleOptionality(rs[i]), key,
                    rs[i].parameter_types)]

\* A provider a client registers on the resolver: it offers one
\* zero-dependency Constructor for the keys of its type.
Provider(n, t) == [name |-> n, type |-> t]
ProviderA == Provider("pa", "A")
ProviderB == Provider("pb", "B")
ProviderUniverse == {ProviderA, ProviderB}

\* provide_for_type of such a provider.
StaticProvide(provider, key) ==
    IF provider.type = get_type(key)
    THEN <<Constructor("static::" \o provider.name, provider.name,
                       FALSE, FALSE, key, <<>>)>>
    ELSE <<>>

\* BlueprintResolver._raw_create_plans with the providers of BaseComposify:
\* the container provider first, then the rule provider, then the
\* providers registered later, in the order of their registration.
raw_create_plans(provs, reg, cont, key) ==
    LET c == ContainerProvide(cont, key) IN
    IF c.exc # NoErr THEN [exc |-> c.exc, plans |-> <<>>]
    ELSE [exc |-> NoErr,
          plans |-> c.plans \o RuleProvide(reg, key)
                    \o ConcatAll([i \in 1..Len(provs) |-> StaticProvide(provs[i], key)])]

\* _create_plans after a miss: the plans the providers gave are stored; an
\* error of a provider leaves the memo as it was.
Memoize(m, key, raw) ==
    IF raw.exc # NoErr
    THEN [memo |-> m, exc |-> raw.exc, plans |-> <<>>]
    ELSE [memo |-> (key :> raw.plans) @@ m, exc |-> NoErr, plans |-> raw.plans]

\* A memo that keeps the exhausted generator instead of its items.
create_plans_ExhaustedMemo(m, provs, reg, cont, key) ==
    IF key \in DOMAIN m
    THEN [memo |-> m, exc |-> NoErr, plans |-> m[key]]
    ELSE LET raw == raw_create_plans(provs, reg, cont, key) IN
         IF raw.exc # NoErr
         THEN [memo |-> m, exc |-> raw.exc, plans |-> <<>>]
         ELSE [memo |-> (key :> <<>>) @@ m, exc |-> NoErr, plans |-> raw.plans]

\* BlueprintResolver._create_plans: the memo is consulted first and filled
\* after a miss.
create_plans(m, provs, reg, cont, key) ==
    IF key \in DOMAIN m
    THEN [memo |-> m, exc |-> NoErr, plans |-> m[key]]
    ELSE Memoize(m, key, raw_create_plans(provs, reg, cont, key))

(***************************************************************************)
(* Blueprints and the resolver (blueprint.py).                             *)
(***************************************************************************)
Blueprint(source, constructor, is_async, output_type, dependencies, priority, is_optional) ==
    [source |-> source, constructor |-> constructor, is_async |-> is_async,
     output_type |-> output_type, dependencies |-> dependencies,
     priority |-> priority, is_optional |-> is_optional]

RECURSIVE BpKey(_)
\* Blueprint.__eq__/__hash__: only constructor and dependencies compare.
BpKey(bp) ==
    [constructor |-> bp.constructor,
     dependencies |-> {<<d[1], BpKey(d[2])>> : d \in bp.dependencies}]

SeqToSet(s) == {s[i] : i \in 1..Len(s)}

RECURSIVE permutate_LastSlowest(_, _)
\* A product in which the last parameter varies slowest.
permutate_LastSlowest(parameters, rest_of_parameters) ==
    IF rest_of_parameters = <<>>
    THEN <<parameters>>
    ELSE LET n == Len(rest_of_parameters)
             name == rest_of_parameters[n][1]
             values == rest_of_parameters[n][2]
         IN ConcatAll([v \in 1..Len(values) |->
                permutate_LastSlowest(Append(parameters, <<name, values[v]>>),
                                      SubSeq(rest_of_parameters, 1, n - 1))])

RECURSIVE permutate(_, _)
\* _permutate_parameters: the first of rest_of_parameters varies slowest.
permutate(parameters, rest_of_parameters) ==
    IF rest_of_parameters = <<>>
    THEN <<parameters>>
    ELSE LET name == rest_of_parameters[1][1]
             values == rest_of_parameters[1][2]
         IN ConcatAll([v \in 1..Len(values) |->
                permutate(Append(parameters, <<name, values[v]>>),
                          Tail(rest_of_parameters))])

permutate_parameters(parameters) == permutate(<<>>, parameters)

AnyAsync(perm) == \E i \in 1..Len(perm) : perm[i][2].is_async
AnyOptional(perm) == \E i \in 1..Len(perm) : perm[i][2].is_optional

\* A Blueprint that carries the flags of its own Constructor only.
PlanBlueprint_OwnFlags(plan, perm, plan_order, i, priority) ==
    Blueprint(plan.source, plan.constructor, plan.is_async,
              plan.output_type, SeqToSet(perm),
              priority \o <<plan_order, i>>, plan.is_optional)

\* The Blueprint _resolve_plan yields for permutation number i (from 0).
PlanBlueprint(plan, perm, plan_order, i, priority) ==
    Blueprint(plan.source, plan.constructor,
              plan.is_async \/ AnyAsync(perm),
              plan.output_type, SeqToSet(perm),
              priority \o <<plan_order, i>>,
              plan.is_optional \/ AnyOptional(perm))

Ok(m, bps) == [memo |-> m, exc |-> NoErr, bps |-> bps]
Raise(m, exc) == [memo |-> m, exc |-> exc, bps |-> <<>>]

\* The loop of _resolve_first and _resolve_unique: yield up to and
\* including the first non-optional Blueprint.
RECURSIVE YieldUntilNonOptional(_)
YieldUntilNonOptional(resolved) ==
    IF resolved = <<>> THEN <<>>
    ELSE IF ~Head(resolved).is_optional THEN <<Head(resolved)>>
    ELSE <<Head(resolved)>> \o YieldUntilNonOptional(Tail(resolved))

NonOptionalCount(resolved) ==
    Cardinality({i \in 1..Len(resolved) : ~resolved[i].is_optional})

Sources(resolved) == [i \in 1..Len(resolved) |-> resolved[i].source]

\* A uniqueness check that returns the whole enumeration.
UniqueSelect_KeepsAll(m, target, trace, resolved) ==
    IF NonOptionalCount(resolved) > 1
    THEN Raise(m, MultipleDependencyResolutionError(target, Sources(resolved), trace))
    ELSE Ok(m, resolved)

\* What _resolve_unique does with the exhaustive enumeration.
UniqueSelect(m, target, trace, resolved) ==
    IF NonOptionalCount(resolved) > 1
    THEN Raise(m, MultipleDependencyResolutionError(target, Sources(resolved), trace))
    ELSE Ok(m, YieldUntilNonOptional(resolved))

\* A selection that returns the head of the enumeration only.
FirstSelect_HeadOnly(m, resolved) ==
    Ok(m, IF resolved = <<>> THEN <<>> ELSE <<Head(resolved)>>)

\* What _resolve_first does with the exhaustive enumeration.
FirstSelect(m, resolved) == Ok(m, YieldUntilNonOptional(resolved))

\* A loop that also swallows a candidate's uniqueness failure.
LocalErrors_WithMultiple ==
    {"NoConstructorError", "CyclicDependencyError",
     "MultipleDependencyResolutionError"}

\* The errors _resolve_exhaustive collects instead of raising.
LocalErrors == {"NoConstructorError", "CyclicDependencyError"}

\* An enumeration that returns the empty list when every plan failed.
ExhaustiveEnd_NeverRaises(m, target, trace, constructions, errors) ==
    Ok(m, constructions)

\* An enumeration that fails as soon as one plan failed.
ExhaustiveEnd_RaisesOnAnyError(m, target, trace, constructions, errors) ==
    IF errors # <<>>
    THEN Raise(m, ResolutionFailureError(target, trace, errors))
    ELSE Ok(m, constructions)

\* The end of _resolve_exhaustive, after the loop over the plans.
ExhaustiveEnd(m, target, trace, constructions, errors) ==
    IF constructions = <<>> /\ errors # <<>>
    THEN Raise(m, ResolutionFailureError(target, trace, errors))
    ELSE Ok(m, constructions)

RECURSIVE resolve_internal(_, _, _, _, _, _, _)
RECURSIVE resolve_exhaustive(_, _, _, _, _, _, _)
RECURSIVE ExhaustiveLoop(_, _, _, _, _, _, _, _, _, _, _)
RECURSIVE ExhaustiveCollect(_, _, _, _, _, _, _, _, _, _, _)
RECURSIVE resolve_plan(_, _, _, _, _, _, _, _, _)
RECURSIVE ResolveDependencies(_, _, _, _, _, _, _, _)
RECURSIVE DependencyResolved(_, _, _, _, _, _, _, _)

\* _resolve_plan, lines 266-282: every dependency is resolved in turn, the
\* memo threaded through; the first error that escapes ends the loop.
ResolveDependencies(m, ctx, deps, j, parameters, mode, tracing, priority) ==
    IF j > Len(deps)
    THEN [memo |-> m, exc |-> NoErr, parameters |-> parameters]
    ELSE DependencyResolved(
             resolve_internal(m, ctx, deps[j][2], deps[j][1], mode, tracing, priority),
             ctx, deps, j, parameters, mode, tracing, priority)

\* The loop body once dependency j has been resolved to r.
DependencyResolved(r, ctx, deps, j, parameters, mode, tracing, priority) ==
    IF r.exc # NoErr
    THEN [memo |-> r.memo, exc |-> r.exc, parameters |-> <<>>]
    ELSE ResolveDependencies(r.memo, ctx, deps, j + 1,
                             Append(parameters, <<deps[j][1], r.bps>>),
                             mode, tracing, priority)

\* A cycle test that ignores the parameter name of a trace entry.
IsCyclic_IgnoreName(trace, curr_trace) ==
    \E i \in 1..Len(trace) :
        trace[i][1] = curr_trace[1] /\ trace[i][3] = curr_trace[3]

\* A cycle test that lets a trace entry occur twice before it fires.
IsCyclic_SecondVisit(trace, curr_trace) ==
    Cardinality({i \in 1..Len(trace) : trace[i] = curr_trace}) >= 2

\* The cycle test of _resolve_plan.
IsCyclic(trace, curr_trace) == SeqContains(trace, curr_trace)

\* _resolve_plan, lines 283-307: one Blueprint per permutation of the
\* resolved dependencies d.
PlanPermutations(d, plan, plan_order, priority) ==
    IF d.exc # NoErr
    THEN Raise(d.memo, d.exc)
    ELSE LET perms == permutate_parameters(d.parameters) IN
         Ok(d.memo, [i \in 1..Len(perms) |->
                PlanBlueprint(plan, perms[i], plan_order, i - 1, priority)])

resolve_plan(m, ctx, target, name, plan, plan_order, mode, trace, priority) ==
    LET curr_trace == <<plan.source, name, target>>
        tracing == Append(trace, curr_trace)
    IN IF IsCyclic(trace, curr_trace)
       THEN Raise(m, CyclicDependencyError(target, tracing))
       ELSE IF plan.dependencies # <<>>
       THEN PlanPermutations(
                ResolveDependencies(m, ctx, plan.dependencies, 1, <<>>,
                                    mode, tracing, priority),
                plan, plan_order, priority)
       ELSE Ok(m, <<PlanBlueprint(plan, <<>>, plan_order, 0, priority)>>)

\* The loop of _resolve_exhaustive over the plans, from plan number i.
ExhaustiveLoop(m, ctx, target, name, mode, trace, priority, plans, i, constructions, errors) ==
    IF i > Len(plans)
    THEN ExhaustiveEnd(m, target, trace, constructions, errors)
    ELSE ExhaustiveCollect(
             resolve_plan(m, ctx, target, name, plans[i], i - 1, mode, trace, priority),
             ctx, target, name, mode, trace, priority, plans, i, constructions, errors)

\* The loop body once plan i has given r: its Blueprints are kept, a local
\* error is collected, a ResolutionFailureError is flattened, any other
\* error ends the enumeration.
ExhaustiveCollect(r, ctx, target, name, mode, trace, priority, plans, i, constructions, errors) ==
    IF r.exc = NoErr
    THEN ExhaustiveLoop(r.memo, ctx, target, name, mode, trace, priority,
                        plans, i + 1, constructions \o r.bps, errors)
    ELSE IF r.exc.type \in LocalErrors
    THEN ExhaustiveLoop(r.memo, ctx, target, name, mode, trace, priority,
                        plans, i + 1, constructions, Append(errors, r.exc))
    ELSE IF r.exc.type = "ResolutionFailureError"
    THEN ExhaustiveLoop(r.memo, ctx, target, name, mode, trace, priority,
                        plans, i + 1, constructions, errors \o r.exc.errors)
    ELSE Raise(r.memo, r.exc)

\* _resolve_exhaustive once _create_plans has given p.
ExhaustivePlans(p, ctx, target, name, mode, trace, priority) ==
    IF p.exc # NoErr THEN Raise(p.memo, p.exc)
    ELSE IF p.plans = <<>>
    THEN Raise(p.memo, NoConstructorError(target, trace))
    ELSE ExhaustiveLoop(p.memo, ctx, target, name, mode, trace, priority,
                        p.plans, 1, <<>>, <<>>)

resolve_exhaustive(m, ctx, target, name, mode, trace, priority) ==
    ExhaustivePlans(create_plans(m, ctx.providers, ctx.rules, ctx.container, target),
                    ctx, target, name, mode, trace, priority)

\* _resolve_unique once the enumeration has given r.
UniqueOf(r, target, trace) ==
    IF r.exc # NoErr THEN r ELSE UniqueSelect(r.memo, target, trace, r.bps)

resolve_unique(m, ctx, target, name, mode, trace, priority) ==
    UniqueOf(resolve_exhaustive(m, ctx, target, name, mode, trace, priority),
             target, trace)

\* _resolve_first once the enumeration has given r.
FirstOf(r) ==
    IF r.exc # NoErr THEN r ELSE FirstSelect(r.memo, r.bps)

resolve_first(m, ctx, target, name, mode, trace, priority) ==
    FirstOf(resolve_exhaustive(m, ctx, target, name, mode, trace, priority))

\* A _resolve in which the caller's mode wins over the key's qualifier.
resolve_internal_CallerWins(m, ctx, target, name, mode, trace, priority) ==
    LET sp == split_resolution(mode)
        type_ == IF target.res # NoRes THEN target ELSE Annotate(target, sp[1])
    IN IF sp[1] = UNIQUE
       THEN resolve_unique(m, ctx, type_, name, sp[2], trace, priority)
       ELSE IF sp[1] = EXHAUSTIVE
       THEN resolve_exhaustive(m, ctx, type_, name, sp[2], trace, priority)
       ELSE resolve_first(m, ctx, type_, name, sp[2], trace, priority)

\* _resolve: an explicit Resolution qualifier on the key wins over the
\* caller's mode; otherwise the key is annotated with the current mode.
resolve_internal(m, ctx, target, name, mode, trace, priority) ==
    LET sp == split_resolution(mode)
        cur == IF target.res # NoRes THEN target.res ELSE sp[1]
        type_ == IF target.res # NoRes THEN target ELSE Annotate(target, sp[1])
    IN IF cur = UNIQUE
       THEN resolve_unique(m, ctx, type_, name, sp[2], trace, priority)
       ELSE IF cur = EXHAUSTIVE
       THEN resolve_exhaustive(m, ctx, type_, name, sp[2], trace, priority)
       ELSE IF cur = SELECT_FIRST
       THEN resolve_first(m, ctx, type_, name, sp[2], trace, priority)
       ELSE Raise(m, InvalidResolutionModeError(target))

RECURSIVE SortedByPriority(_)
\* sorted(..., key=lambda x: x.priority): a stable sort.
SortedByPriority(bps) ==
    IF bps = <<>> THEN <<>>
    ELSE LET rest == SortedByPriority(SubSeq(bps, 1, Len(bps) - 1))
             x == bps[Len(bps)]
             pos == Cardinality({i \in 1..Len(rest) :
                        ~TupleLess(x.priority, rest[i].priority)})
         IN InsertAt(rest, pos, x)

\* The errors BlueprintResolver.resolve wraps into ResolutionFailureError.
WrappedErrors ==
    {"NoConstructorError", "CyclicDependencyError",
     "MultipleDependencyResolutionError"}

\* resolve once _resolve has given r: the Blueprints are sorted, the three
\* resolution errors are wrapped, any other error passes.
Sorted(r, target) ==
    IF r.exc = NoErr THEN Ok(r.memo, SortedByPriority(r.bps))
    ELSE IF r.exc.type \in WrappedErrors
    THEN Raise(r.memo, ResolutionFailureError(target, <<>>, <<r.exc>>))
    ELSE r

\* BlueprintResolver.resolve
resolve(m, ctx, target, mode) ==
    LET mode_ == IF mode = NoMode THEN ctx.default_resolution ELSE mode IN
    IF ~is_resolution_mode(mode_)
    THEN Raise(m, InvalidResolutionModeError(target))
    ELSE Sorted(resolve_internal(m, ctx, target, "__root__", mode_, <<>>, <<>>),
                target)

(***************************************************************************)
(* The synchronous Builder (builder.py).  A constructor's result is a      *)
(* token naming the constructor, or None.  The state of a Builder is the   *)
(* record [cache, calls, saved]; an error leaves what was done before it.  *)
(***************************************************************************)
None == "None"
NoExc == "none"

\* What calling the constructor returns: a container instance is returned
\* as it is, a rule's function returns a value or None.
RetOf(constructor) ==
    IF \E r \in AllRules : r.canonical_name = constructor /\ r.ret = "none"
    THEN None
    ELSE "v:" \o constructor

\* One of the orders in which the frozenset of dependencies is iterated.
DepOrder(dependencies, rev) ==
    LET n == Cardinality(dependencies)
        s == CHOOSE q \in [1..n -> dependencies] :
                {q[i] : i \in 1..n} = dependencies
    IN IF rev THEN [i \in 1..n |-> s[n + 1 - i]] ELSE s

Built(st, value) == [st |-> st, exc |-> NoExc, value |-> value]
Fails(st, exc) == [st |-> st, exc |-> exc, value |-> None]

CountOf(calls_, k) == IF k \in DOMAIN calls_ THEN calls_[k] ELSE 0

RECURSIVE from_blueprint(_, _, _)
RECURSIVE from_blueprint_inner(_, _, _)
RECURSIVE BuildParameters(_, _, _, _)
RECURSIVE ParameterBuilt(_, _, _, _)

\* The dict comprehension of Builder._from_blueprint: each dependency is
\* built in turn.
BuildParameters(st, deps, j, rev) ==
    IF j > Len(deps) THEN Built(st, None)
    ELSE ParameterBuilt(from_blueprint(st, deps[j][2], rev), deps, j, rev)

\* _assert_optionality on the built dependency r: a None is refused.
ParameterBuilt(r, deps, j, rev) ==
    IF r.exc # NoExc THEN r
    ELSE IF r.value = None THEN Fails(r.st, "NoValueError")
    ELSE BuildParameters(r.st, deps, j + 1, rev)

\* A _from_blueprint without the test for a None from a non-optional
\* Blueprint.
Construct_NoMismatchTest(p, blueprint) ==
    IF p.exc # NoExc THEN p
    ELSE Built([p.st EXCEPT !.calls =
                   (BpKey(blueprint) :> (CountOf(p.st.calls, BpKey(blueprint)) + 1))
                       @@ p.st.calls],
               RetOf(blueprint.constructor))

\* Builder._from_blueprint once the parameters p are built: the constructor
\* is called; None from a non-optional Blueprint is a mismatch.
Construct(p, blueprint) ==
    IF p.exc # NoExc THEN p
    ELSE LET k == BpKey(blueprint)
             called == [p.st EXCEPT !.calls =
                           (k :> (CountOf(p.st.calls, k) + 1)) @@ p.st.calls]
             value == RetOf(blueprint.constructor)
         IN IF value = None /\ ~blueprint.is_optional
            THEN Fails(called, "NonOptionalBuilderMismatchError")
            ELSE Built(called, value)

\* Builder._from_blueprint
from_blueprint_inner(st, blueprint, rev) ==
    Construct(BuildParameters(st, DepOrder(blueprint.dependencies, rev), 1, rev),
              blueprint)

\* Builder.from_blueprint after a miss: the value r is cached and, unless
\* None, saved.
CacheAndSave(r, blueprint) ==
    IF r.exc # NoExc THEN r
    ELSE LET cached == [r.st EXCEPT !.cache =
                           (BpKey(blueprint) :> r.value) @@ r.st.cache]
         IN IF r.value # None
            THEN Built([cached EXCEPT !.saved =
                           Append(cached.saved, <<blueprint.source, r.value>>)],
                       r.value)
            ELSE Built(cached, r.value)

\* A Builder without the is_async test.
from_blueprint_NoAsyncTest(st, blueprint, rev) ==
    LET k == BpKey(blueprint)
        value == IF k \in DOMAIN st.cache THEN st.cache[k] ELSE None
    IN IF value # None THEN Built(st, value)
       ELSE CacheAndSave(from_blueprint_inner(st, blueprint, rev), blueprint)

\* Builder.from_blueprint: a cached value other than None is returned;
\* otherwise the Blueprint is built.
from_blueprint(st, blueprint, rev) ==
    IF blueprint.is_async THEN Fails(st, "AsyncBlueprintError")
    ELSE LET k == BpKey(blueprint)
             value == IF k \in DOMAIN st.cache THEN st.cache[k] ELSE None
         IN IF value # None THEN Built(st, value)
            ELSE CacheAndSave(from_blueprint_inner(st, blueprint, rev), blueprint)

(***************************************************************************)
(* ComposifyGetOrCreate (applications.py) over a resolver and a Builder.   *)
(***************************************************************************)
RECURSIVE SelectLoop(_, _, _, _)
\* The loop of _select_blueprint: optional plans are kept until a
\* non-optional one is selected; a second non-optional one is an error.
SelectLoop(plans, i, selected, is_non_optional_selected) ==
    IF i > Len(plans)
    THEN (IF selected = <<>>
          THEN [exc |-> "NoResolutionError", selected |-> <<>>]
          ELSE [exc |-> NoExc, selected |-> selected])
    ELSE IF plans[i].is_optional
    THEN SelectLoop(plans, i + 1,
                    IF is_non_optional_selected THEN selected
                    ELSE Append(selected, plans[i]),
                    is_non_optional_selected)
    ELSE IF is_non_optional_selected
    THEN [exc |-> "MultipleResolutionError", selected |-> <<>>]
    ELSE SelectLoop(plans, i + 1, Append(selected, plans[i]), TRUE)

\* A selection that keeps the first non-optional plan and passes over the
\* later ones.
select_blueprint_FirstWins(plans) ==
    [exc |-> IF plans = <<>> THEN "NoResolutionError" ELSE NoExc,
     selected |-> YieldUntilNonOptional(plans)]

\* _select_blueprint
select_blueprint(plans) == SelectLoop(plans, 1, <<>>, FALSE)

\* What _create_one_in_group gives: attempts is the number of plans it
\* handed to the Builder.
Group(st, exc, value, attempts) ==
    [st |-> st, exc |-> exc, value |-> value, attempts |-> attempts]

RECURSIVE CreateLoop(_, _, _, _)
RECURSIVE Created(_, _, _, _)
\* The loop of _create_one_in_group: the plans are built in order until
\* one gives a value; NoValueError is passed over, no value at all raises
\* NoValueError.
CreateLoop(st, plans, i, rev) ==
    IF i > Len(plans) THEN Group(st, "NoValueError", None, Len(plans))
    ELSE Created(from_blueprint(st, plans[i], rev), plans, i, rev)

\* The loop body once plan i has been built with outcome r.
Created(r, plans, i, rev) ==
    IF r.exc = "NoValueError" THEN CreateLoop(r.st, plans, i + 1, rev)
    ELSE IF r.exc # NoExc THEN Group(r.st, r.exc, None, i)
    ELSE IF r.value # None THEN Group(r.st, NoExc, r.value, i)
    ELSE CreateLoop(r.st, plans, i + 1, rev)

\* ComposifyGetOrCreate._create_one_in_group
create_one_in_group(st, plans, rev) == CreateLoop(st, plans, 1, rev)

\* The outcome of a get_or_create call together with the state it leaves.
Got(m, st, exc, value, values, resolved, selected, attempts) ==
    [memo |-> m, st |-> st, exc |-> exc, value |-> value, values |-> values,
     resolved |-> resolved, selected |-> selected, attempts |-> attempts]

\* one, once the selected plans s were handed to _create_one_in_group.
OneCreated(g, r, s) ==
    Got(r.memo, g.st, g.exc, g.value, <<>>, r.bps, s.selected, g.attempts)

\* one, once _select_blueprint has given s.
OneSelected(s, r, st, rev) ==
    IF s.exc # NoExc
    THEN Got(r.memo, st, s.exc, None, <<>>, r.bps, <<>>, 0)
    ELSE OneCreated(create_one_in_group(st, s.selected, rev), r, s)

\* one, once resolve has given r.
OneResolved(r, st, rev) ==
    IF r.exc # NoErr
    THEN Got(r.memo, st, r.exc.type, None, <<>>, <<>>, <<>>, 0)
    ELSE OneSelected(select_blueprint(r.bps), r, st, rev)

\* ComposifyGetOrCreate.one(type_, resolution_mode), mode being what
\* _resolution made of resolution_mode.
GetOrCreate_one(m, ctx, st, key, mode, rev) ==
    OneResolved(resolve(m, ctx, key, mode), st, rev)

\* join_resolution
join_resolution(resolution1, resolution2) == resolution1 \o resolution2

\* _skip_no_constructor_error: the errors that are no NoConstructorError.
skip_no_constructor_error(exc) ==
    SelectSeq(exc.errors, LAMBDA e : e.type # "NoConstructorError")

RECURSIVE GroupBy(_)
\* BlueprintGrouper at level 0: itertools.groupby on priority[:1].
GroupBy(plans) ==
    IF plans = <<>> THEN <<>>
    ELSE LET n == CHOOSE k \in 1..Len(plans) :
                      /\ \A j \in 1..k : plans[j].priority[1] = plans[1].priority[1]
                      /\ (k < Len(plans) =>
                             plans[k + 1].priority[1] # plans[1].priority[1])
         IN <<SubSeq(plans, 1, n)>> \o GroupBy(SubSeq(plans, n + 1, Len(plans)))

RECURSIVE AllLoop(_, _, _, _, _, _)
RECURSIVE AllCreated(_, _, _, _, _, _)
\* The generator of all: one _create_one_in_group per group; an error of a
\* group ends the call.
AllLoop(r, st, groups, g, rev, values) ==
    IF g > Len(groups)
    THEN Got(r.memo, st, NoExc, None, values, r.bps, <<>>, Len(groups))
    ELSE AllCreated(create_one_in_group(st, groups[g], rev), r, groups, g, rev, values)

AllCreated(c, r, groups, g, rev, values) ==
    IF c.exc # NoExc
    THEN Got(r.memo, c.st, c.exc, None, <<>>, r.bps, <<>>, g)
    ELSE AllLoop(r, c.st, groups, g + 1, rev, Append(values, c.value))

\* all, once resolve has given r: a ResolutionFailureError made of
\* NoConstructorErrors only gives the empty tuple.
AllResolved(r, st, rev) ==
    IF r.exc = NoErr THEN AllLoop(r, st, GroupBy(r.bps), 1, rev, <<>>)
    ELSE IF r.exc.type = "ResolutionFailureError"
            /\ skip_no_constructor_error(r.exc) = <<>>
    THEN Got(r.memo, st, NoExc, None, <<>>, <<>>, <<>>, 0)
    ELSE Got(r.memo, st, r.exc.type, None, <<>>, <<>>, <<>>, 0)

\* ComposifyGetOrCreate.all(type_, resolution_mode)
GetOrCreate_all(m, ctx, st, key, mode, rev) ==
    AllResolved(resolve(m, ctx, key, join_resolution(<<EXHAUSTIVE>>, mode)), st, rev)

VARIABLES
    default_resolution, \* BlueprintResolver._default_resolution
    rules,      \* RuleRegistry: TypedRegistry._entries, type -> bucket (list)
    container,  \* Container._mapping_by_type, as the list of wrappers
    providers,  \* BlueprintResolver._providers after the two of BaseComposify
    memo,       \* BlueprintResolver._memo: key -> tuple of Constructor
    last,       \* outcome of the latest resolve call
    nres,       \* resolve calls since the rules or the providers last changed
    again,      \* history: did the latest resolve repeat the call before it,
                \* and with the same outcome ("no", "same", "differs")
    cache,      \* Builder._cache: blueprint (by equality) -> value
    calls,      \* constructor invocations, per blueprint (by equality)
    saved,      \* the Builder's save sink: (ProvidedBy source, value) pairs
    built,      \* outcome of the latest Builder.from_blueprint call
    nbuilds,    \* from_blueprint and get_or_create calls made by the client
    got,        \* outcome of the latest get_or_create call
    tasks,      \* AsyncBuilder._cache: blueprint (by equality) -> Task
    coros,      \* the AsyncBuilder.from_blueprint coroutines, by id
    acalls,     \* AsyncBuilder: constructor invocations, per blueprint
    asaved,     \* the AsyncBuilder's save sink
    entries,    \* a TypedRegistry's _entries: type -> bucket (list)
    regout,     \* outcome of the latest operation on that TypedRegistry
    mapping_by_name,  \* a Container's _mapping_by_name: name -> wrapper
    mapping_by_type,  \* that Container's _mapping_by_type: type -> bucket
    cout        \* outcome of the latest operation on that Container

vars == <<default_resolution, rules, container, providers, memo, last, nres, again, cache, calls, saved, built, nbuilds, got, tasks, coros, acalls, asaved, entries, regout, mapping_by_name, mapping_by_type, cout>>
resolverVars == <<default_resolution, rules, container, providers, memo, last, nres, again>>
builderVars == <<cache, calls, saved, built, nbuilds, got>>
asyncVars == <<tasks, coros, acalls, asaved>>
registryVars == <<entries, regout>>
containerVars == <<mapping_by_name, mapping_by_type, cout>>

(***************************************************************************)
(* The resolver's operations.                                              *)
(***************************************************************************)
NoCall == [op |-> "none", key |-> NoKey, mode |-> NoMode, exc |-> NoErr, bps |-> <<>>]

\* The modes an application is constructed with (BaseComposify's
\* default_resolution, handed to its BlueprintResolver).
ModeInputs == {<<EXHAUSTIVE>>, <<SELECT_FIRST>>, <<UNIQUE>>}

Ctx == [rules |-> rules, container |-> container,
        default_resolution |-> default_resolution, providers |-> providers]

EmptyMemo == <<>>

InitResolver ==
    /\ default_resolution \in ModeInputs
    /\ rules = [t \in Types |-> <<>>]
    /\ container \in ContainerConfigs
    /\ providers = <<>>
    /\ memo = EmptyMemo
    /\ last = NoCall
    /\ nres = 0
    /\ again = "no"

NoBlueprint == Blueprint("", "", FALSE, NoKey, {}, <<>>, FALSE)
NoBuild == [op |-> "none", key |-> <<>>, bp |-> NoBlueprint, exc |-> NoExc,
            value |-> None]

NoGot == [op |-> "none", key |-> NoKey, mode |-> NoMode, exc |-> NoExc,
          value |-> None, values |-> <<>>, resolved |-> <<>>,
          selected |-> <<>>, attempts |-> 0]

InitBuilder ==
    /\ cache = <<>>
    /\ calls = <<>>
    /\ saved = <<>>
    /\ built = NoBuild
    /\ nbuilds = 0
    /\ got = NoGot

\* AsyncBuilder.__init__
InitAsyncBuilder ==
    /\ tasks = <<>>
    /\ coros = <<>>
    /\ acalls = <<>>
    /\ asaved = <<>>

\* TypedRegistry.__init__ without initial entries.
NoOp == [op |-> "none", entry |-> Entry("", "", {}, 0),
         key |-> LookupKey("", {}, "none"), raises |-> "none", result |-> <<>>]
InitRegistry ==
    /\ entries = <<>>
    /\ regout = NoOp

\* Container.__init__
NoContainerOp == [op |-> "none", instance |-> NoInstance, name |-> NoName,
                  is_primary |-> FALSE, raises |-> "none"]
InitContainer ==
    /\ mapping_by_name = <<>>
    /\ mapping_by_type = <<>>
    /\ cout = NoContainerOp

Init == InitResolver /\ InitBuilder /\ InitAsyncBuilder /\ InitRegistry /\ InitContainer

\* BaseComposify.add_rule: RuleRegistry.register_rule, then clear_memo.  A
\* DuplicatedEntryError leaves the registry and the memo as they were.
AddRule(r) ==
    /\ RegistrySize(rules) < MaxRules
    /\ IF AddEntryRaises(rules, r)
       THEN UNCHANGED <<rules, memo, nres, last, again>>
       ELSE /\ rules' = add_entry(rules, r)
            /\ memo' = EmptyMemo
            /\ nres' = 0
            /\ last' = NoCall
            /\ again' = "no"
    /\ UNCHANGED <<default_resolution, container, providers, builderVars, asyncVars, registryVars, containerVars>>

\* A call resolve(target) by a client: mode=None, so the resolver's default
\* mode applies; last.mode records the mode the call ran in.
Resolve(t) ==
    /\ nres < MaxResolves
    /\ \E mode \in {default_resolution}, r \in {resolve(memo, Ctx, Key(t), NoMode)} :
       /\ memo' = r.memo
       /\ last' = [op |-> "resolve", key |-> Key(t), mode |-> mode,
                   exc |-> r.exc, bps |-> r.bps]
       /\ again' = IF last.op = "resolve" /\ last.key = Key(t) /\ last.mode = mode
                   THEN (IF last.exc = r.exc /\ last.bps = r.bps
                         THEN "same" ELSE "differs")
                   ELSE "no"
    /\ nres' = nres + 1
    /\ UNCHANGED <<default_resolution, rules, container, providers, builderVars, asyncVars, registryVars, containerVars>>

\* A call Builder.from_blueprint(blueprint) by a client, on a Blueprint the
\* latest resolve returned.
Build(i, rev) ==
    /\ nbuilds < MaxBuilds
    /\ last.op = "resolve" /\ last.exc = NoErr
    /\ i \in 1..Len(last.bps)
    /\ \E r \in {from_blueprint([cache |-> cache, calls |-> calls, saved |-> saved],
                                last.bps[i], rev)} :
       /\ cache' = r.st.cache
       /\ calls' = r.st.calls
       /\ saved' = r.st.saved
       /\ built' = [op |-> "build", key |-> BpKey(last.bps[i]),
                    bp |-> last.bps[i], exc |-> r.exc, value |-> r.value]
    /\ nbuilds' = nbuilds + 1
    /\ UNCHANGED <<got, resolverVars, asyncVars, registryVars, containerVars>>

Next ==
    \/ \E r \in RuleUniverse : AddRule(r)
    \/ \E t \in Types : Resolve(t)

Spec == Init /\ [][Next]_vars

RECURSIVE Registered(_)
\* The registry after add_rule was called with each rule of rs in turn.
Registered(rs) ==
    IF rs = <<>> THEN [t \in Types |-> <<>>]
    ELSE add_entry(Registered(SubSeq(rs, 1, Len(rs) - 1)), rs[Len(rs)])

\* The applications the Builder is exercised in: a shared dependency (b0
\* under c2 and under ba), an optional rule that returns None beside a
\* rule that returns a value, a None reaching a dependent rule, an async
\* rule alone and as a dependency, and a non-optional rule returning None.
BuilderScenarios ==
    {<<RuleC2, RuleBA, RuleB0>>,
     <<RuleAOpt, RuleA0, RuleAB>>,
     <<RuleAOpt, RuleAB, RuleB0, RuleC2>>,
     <<RuleBAsync, RuleBA, RuleA0>>,
     <<RuleBNone, RuleBA, RuleAOpt>>}

\* An application whose rules are registered, with a fresh resolver and a
\* fresh Builder.
InitApplication ==
    /\ default_resolution \in ModeInputs
    /\ rules \in {Registered(rs) : rs \in BuilderScenarios}
    /\ container \in {<<>>, <<WB0>>}
    /\ providers = <<>>
    /\ memo = EmptyMemo
    /\ last = NoCall
    /\ nres = 0
    /\ again = "no"
    /\ InitBuilder
    /\ InitAsyncBuilder
    /\ InitRegistry
    /\ InitContainer

\* The resolver together with one Builder.
NextBuilder ==
    \/ \E t \in Types : Resolve(t)
    \/ \E i \in 1..Len(last.bps), rev \in BOOLEAN : Build(i, rev)

SpecBuilder == InitApplication /\ [][NextBuilder]_vars

(***************************************************************************)
(* The AsyncBuilder (builder.py) on an event loop.  A from_blueprint       *)
(* coroutine and a _from_blueprint Task run from one await to the next in  *)
(* one step; which of the runnable ones the loop runs next is open.        *)
(***************************************************************************)
NoTask == [constructor |-> "", dependencies |-> {}]

\* A from_blueprint coroutine is named by the Task that awaits it and the
\* parameter it is built for; a client's coroutine has no such Task.
CoroId(parent, name) == [parent |-> parent, name |-> name]
ClientId(c) == CoroId(NoTask, "client" \o ToString(c))
Clients == {id \in DOMAIN coros : id.parent = NoTask}

\* asyncio.iscoroutinefunction(blueprint.constructor)
iscoroutinefunction(constructor) ==
    \E r \in AllRules : r.canonical_name = constructor /\ r.is_async

\* asyncio.Task(self._from_blueprint(blueprint)), not yet run.
Task(bp) == [bp |-> bp, pc |-> "created", exc |-> NoExc, value |-> None]

\* self.from_blueprint(blueprint), not yet run; miss tells whether the
\* coroutine created the Task it awaits.
Coroutine(bp) ==
    [bp |-> bp, pc |-> "created", miss |-> FALSE, exc |-> NoExc, value |-> None]

\* await task, once the Task is done: its result or its exception.
Returned(co, task) ==
    [co EXCEPT !.pc = "returned", !.exc = task.exc, !.value = task.value]

\* The end of AsyncBuilder._from_blueprint: None from a non-optional
\* Blueprint is a mismatch.
Finish(task) ==
    LET value == RetOf(task.bp.constructor) IN
    IF value = None /\ ~task.bp.is_optional
    THEN [task EXCEPT !.pc = "done", !.exc = "NonOptionalBuilderMismatchError"]
    ELSE [task EXCEPT !.pc = "done", !.value = value]

\* The constructor is called with the gathered parameters: a coroutine
\* function is awaited, a plain function returns at once.
Invoke(k) ==
    /\ acalls' = (k :> (CountOf(acalls, k) + 1)) @@ acalls
    /\ tasks' = [tasks EXCEPT ![k] =
                    IF iscoroutinefunction(@.bp.constructor)
                    THEN [@ EXCEPT !.pc = "calling"]
                    ELSE Finish(@)]

\* The coroutines AsyncBuilder._from_blueprint hands to asyncio.gather.
\* _assert_optionality is applied to the coroutine object, never to None.
DepIds(k, bp) == {CoroId(k, d[1]) : d \in bp.dependencies}
DepCoros(k, bp) ==
    [id \in DepIds(k, bp) |->
        Coroutine((CHOOSE d \in bp.dependencies : d[1] = id.name)[2])]

\* A client awaits builder.from_blueprint(blueprint) on a Blueprint the
\* latest resolve returned.
AwaitFromBlueprint(i) ==
    /\ Cardinality(Clients) < MaxCallers
    /\ last.op = "resolve" /\ last.exc = NoErr
    /\ i \in 1..Len(last.bps)
    /\ coros' = (ClientId(Cardinality(Clients) + 1) :> Coroutine(last.bps[i])) @@ coros
    /\ UNCHANGED <<tasks, acalls, asaved, resolverVars, builderVars, registryVars, containerVars>>

\* A from_blueprint that never looks into the cache.
RunCoroutine_NoCache(id) ==
    /\ coros[id].pc = "created"
    /\ tasks' = (BpKey(coros[id].bp) :> Task(coros[id].bp)) @@ tasks
    /\ coros' = [coros EXCEPT ![id] = [@ EXCEPT !.pc = "awaiting", !.miss = TRUE]]
    /\ UNCHANGED <<acalls, asaved, resolverVars, builderVars, registryVars, containerVars>>

\* AsyncBuilder.from_blueprint up to its await: the cached Task is awaited,
\* or a Task is created and cached.
RunCoroutine(id) ==
    /\ coros[id].pc = "created"
    /\ \E k \in {BpKey(coros[id].bp)} :
        IF k \in DOMAIN tasks
        THEN /\ coros' = [coros EXCEPT ![id] =
                             IF tasks[k].pc = "done"
                             THEN Returned(@, tasks[k])
                             ELSE [@ EXCEPT !.pc = "awaiting"]]
             /\ UNCHANGED tasks
        ELSE /\ tasks' = (k :> Task(coros[id].bp)) @@ tasks
             /\ coros' = [coros EXCEPT ![id] =
                             [@ EXCEPT !.pc = "awaiting", !.miss = TRUE]]
    /\ UNCHANGED <<acalls, asaved, resolverVars, builderVars, registryVars, containerVars>>

\* AsyncBuilder.from_blueprint after its await: the coroutine that created
\* the Task saves a value other than None.
ResumeCoroutine(id) ==
    /\ coros[id].pc = "awaiting"
    /\ \E task \in {tasks[BpKey(coros[id].bp)]} :
        /\ task.pc = "done"
        /\ coros' = [coros EXCEPT ![id] = Returned(@, task)]
        /\ asaved' = IF coros[id].miss /\ task.exc = NoExc /\ task.value # None
                      THEN Append(asaved, <<task.bp.source, task.value>>)
                      ELSE asaved
    /\ UNCHANGED <<tasks, acalls, resolverVars, builderVars, registryVars, containerVars>>

\* AsyncBuilder._from_blueprint up to its first await: the dependencies'
\* coroutines are gathered; without dependencies the constructor is called.
RunTask(k) ==
    /\ tasks[k].pc = "created"
    /\ IF tasks[k].bp.dependencies = {}
       THEN Invoke(k) /\ UNCHANGED coros
       ELSE /\ tasks' = [tasks EXCEPT ![k].pc = "gathering"]
            /\ coros' = DepCoros(k, tasks[k].bp) @@ coros
            /\ UNCHANGED acalls
    /\ UNCHANGED <<asaved, resolverVars, builderVars, registryVars, containerVars>>

\* A gather that hands a failed dependency on as a parameter.
ResumeTask_IgnoreFailure(k) ==
    /\ tasks[k].pc = "gathering"
    /\ \A id \in DepIds(k, tasks[k].bp) : coros[id].pc = "returned"
    /\ Invoke(k)
    /\ UNCHANGED <<coros, asaved, resolverVars, builderVars, registryVars, containerVars>>

\* asyncio.gather is done: the first exception of a dependency ends the
\* Task; when every dependency returned the constructor is called.
ResumeTask(k) ==
    /\ tasks[k].pc = "gathering"
    /\ \/ /\ \E id \in DepIds(k, tasks[k].bp) :
                /\ coros[id].pc = "returned" /\ coros[id].exc # NoExc
                /\ tasks' = [tasks EXCEPT ![k] =
                                [@ EXCEPT !.pc = "done", !.exc = coros[id].exc]]
          /\ UNCHANGED acalls
       \/ /\ \A id \in DepIds(k, tasks[k].bp) :
                coros[id].pc = "returned" /\ coros[id].exc = NoExc
          /\ Invoke(k)
    /\ UNCHANGED <<coros, asaved, resolverVars, builderVars, registryVars, containerVars>>

\* await blueprint.constructor(**parameters) is done.
FinishConstructor(k) ==
    /\ tasks[k].pc = "calling"
    /\ tasks' = [tasks EXCEPT ![k] = Finish(@)]
    /\ UNCHANGED <<coros, acalls, asaved, resolverVars, builderVars, registryVars, containerVars>>

\* The applications the AsyncBuilder is exercised in: a dependency shared
\* by two parents, an async rule under a parent, a None reaching a
\* dependent rule, and a non-optional rule returning None under a parent
\* beside optional rules returning None.
AsyncScenarios ==
    {<<RuleC2, RuleBA, RuleB0>>,
     <<RuleBAsync, RuleBA, RuleA0>>,
     <<RuleAOpt, RuleA0, RuleAB>>,
     <<RuleBNone, RuleBA, RuleA0, RuleCOpt>>}

\* An application that resolves exhaustively, with a fresh Builder and a
\* fresh AsyncBuilder.
InitAsyncApplication ==
    /\ default_resolution = <<EXHAUSTIVE>>
    /\ rules \in {Registered(rs) : rs \in AsyncScenarios}
    /\ container = <<>>
    /\ providers = <<>>
    /\ memo = EmptyMemo
    /\ last = NoCall
    /\ nres = 0
    /\ again = "no"
    /\ InitBuilder
    /\ InitAsyncBuilder
    /\ InitRegistry
    /\ InitContainer

\* The resolver together with one Builder and one AsyncBuilder on one
\* event loop.
NextAsync ==
    \/ \E t \in Types : Resolve(t)
    \/ \E i \in 1..Len(last.bps), rev \in BOOLEAN : Build(i, rev)
    \/ \E i \in 1..Len(last.bps) : AwaitFromBlueprint(i)
    \/ \E id \in DOMAIN coros : RunCoroutine(id)
    \/ \E id \in DOMAIN coros : ResumeCoroutine(id)
    \/ \E k \in DOMAIN tasks : RunTask(k)
    \/ \E k \in DOMAIN tasks : ResumeTask(k)
    \/ \E k \in DOMAIN tasks : FinishConstructor(k)

SpecAsync == InitAsyncApplication /\ [][NextAsync]_vars

(***************************************************************************)
(* Providers registered on the resolver of a running application.          *)
(***************************************************************************)
RECURSIVE RegisterLoop(_, _, _)
\* The loop of BlueprintResolver.register_providers: a provider that is
\* already registered raises ValueError and ends the loop.
RegisterLoop(provs, ps, j) ==
    IF j > Len(ps) THEN [providers |-> provs, raises |-> "none"]
    ELSE IF SeqContains(provs, ps[j])
    THEN [providers |-> provs, raises |-> "ValueError"]
    ELSE RegisterLoop(Append(provs, ps[j]), ps, j + 1)

\* The memo after the loop: clear_memo is the statement after the loop.
MemoAfter(m, r) == IF r.raises = "none" THEN EmptyMemo ELSE m

\* The resolver's state after a registration call that gave r: a call that
\* changed nothing leaves everything as it was.
Registering(r) ==
    IF r.providers = providers /\ r.raises # "none"
    THEN UNCHANGED <<providers, memo, last, nres, again>>
    ELSE /\ providers' = r.providers
         /\ memo' = MemoAfter(memo, r)
         /\ last' = NoCall
         /\ nres' = 0
         /\ again' = "no"

\* BlueprintResolver.register_provider(provider)
RegisterProvider(provider) ==
    /\ Registering(RegisterLoop(providers, <<provider>>, 1))
    /\ UNCHANGED <<default_resolution, rules, container, builderVars, asyncVars, registryVars, containerVars>>

\* BlueprintResolver.register_providers(ps)
RegisterProviders(ps) ==
    /\ Registering(RegisterLoop(providers, ps, 1))
    /\ UNCHANGED <<default_resolution, rules, container, builderVars, asyncVars, registryVars, containerVars>>

\* The provider lists a client hands to register_providers.
ProviderLists == {<<p, q>> : p \in ProviderUniverse, q \in ProviderUniverse}

\* An application without rules that resolves exhaustively.
InitProviders ==
    /\ Init
    /\ default_resolution = <<EXHAUSTIVE>>
    /\ container = <<>>

NextProviders ==
    \/ \E r \in RuleUniverse : AddRule(r)
    \/ \E t \in Types : Resolve(t)
    \/ \E p \in ProviderUniverse : RegisterProvider(p)
    \/ \E ps \in ProviderLists : RegisterProviders(ps)

SpecProviders == InitProviders /\ [][NextProviders]_vars

(***************************************************************************)
(* Resolution with explicit modes and with keys that carry a Resolution    *)
(* qualifier.                                                              *)
(***************************************************************************)
\* The keys a client resolves: a type, bare or annotated with a Resolution.
ModeKeys ==
    {Key(t) : t \in Types}
        \cup {Annotate(Key(t), q) : t \in Types, q \in RESOLUTION_TYPES}

\* The modes a client hands to resolve: none, one type, a sequence.
CallModes ==
    {NoMode, <<EXHAUSTIVE>>, <<SELECT_FIRST>>, <<UNIQUE>>,
     <<EXHAUSTIVE, UNIQUE>>, <<SELECT_FIRST, EXHAUSTIVE>>}

\* The mode resolve runs in.
EffectiveMode(mode) == IF mode = NoMode THEN default_resolution ELSE mode

\* A call resolve(key, mode) by a client.
ResolveWith(key, mode) ==
    /\ nres < MaxResolves
    /\ \E r \in {resolve(memo, Ctx, key, mode)} :
       /\ memo' = r.memo
       /\ last' = [op |-> "resolve", key |-> key, mode |-> EffectiveMode(mode),
                   exc |-> r.exc, bps |-> r.bps]
       /\ again' = IF last.op = "resolve" /\ last.key = key
                      /\ last.mode = EffectiveMode(mode)
                   THEN (IF last.exc = r.exc /\ last.bps = r.bps
                         THEN "same" ELSE "differs")
                   ELSE "no"
    /\ nres' = nres + 1
    /\ UNCHANGED <<default_resolution, rules, container, providers, builderVars, asyncVars, registryVars, containerVars>>

\* Applications in which A has two candidates, one of them through B, and
\* C is built from A: by a parameter declared Annotated[A, Exhaustive], or
\* by plain parameters; in the last one B has two candidates as well.
ModeScenarios ==
    {<<RuleA0, RuleBA, RuleB0, RuleCEx>>,
     <<RuleA0, RuleBA, RuleB0, RuleC2>>,
     <<RuleA0, RuleBA, RuleB0, RuleAB>>}

InitModes ==
    /\ default_resolution = DEFAULT_RESOLUTION_MODE
    /\ rules \in {Registered(rs) : rs \in ModeScenarios}
    /\ container = <<>>
    /\ providers = <<>>
    /\ memo = EmptyMemo
    /\ last = NoCall
    /\ nres = 0
    /\ again = "no"
    /\ InitBuilder
    /\ InitAsyncBuilder
    /\ InitRegistry
    /\ InitContainer

NextModes == \E key \in ModeKeys, mode \in CallModes : ResolveWith(key, mode)

SpecModes == InitModes /\ [][NextModes]_vars

(***************************************************************************)
(* An application used through get_or_create.                              *)
(***************************************************************************)
\* The state a get_or_create call that gave g leaves.
GetOrCreated(op, key, mode, g) ==
    /\ memo' = g.memo
    /\ cache' = g.st.cache
    /\ calls' = g.st.calls
    /\ saved' = g.st.saved
    /\ got' = [op |-> op, key |-> key, mode |-> mode, exc |-> g.exc,
               value |-> g.value, values |-> g.values, resolved |-> g.resolved,
               selected |-> g.selected, attempts |-> g.attempts]
    /\ nbuilds' = nbuilds + 1
    /\ UNCHANGED <<default_resolution, rules, container, providers, last, nres, again, built, asyncVars, registryVars, containerVars>>

\* A call get_or_create.one(type_, resolution_mode) by a client.
One(key, mode, rev) ==
    /\ nbuilds < MaxBuilds
    /\ GetOrCreated("one", key, EffectiveMode(mode),
                    GetOrCreate_one(memo, Ctx,
                                    [cache |-> cache, calls |-> calls, saved |-> saved],
                                    key, EffectiveMode(mode), rev))

\* A call get_or_create.all(type_, resolution_mode) by a client.
All(key, mode, rev) ==
    /\ nbuilds < MaxBuilds
    /\ GetOrCreated("all", key, EffectiveMode(mode),
                    GetOrCreate_all(memo, Ctx,
                                    [cache |-> cache, calls |-> calls, saved |-> saved],
                                    key, EffectiveMode(mode), rev))

\* Applications: two non-optional rules for A; an optional rule that gives
\* None before a non-optional one; an optional rule that gives a value
\* before a non-optional one; only an optional rule that gives None; the
\* non-optional rule registered before the optional one.
GetScenarios ==
    {<<RuleA0, RuleBA, RuleB0>>,
     <<RuleAOpt, RuleA0, RuleAB>>,
     <<RuleAOptVal, RuleA0, RuleB0, RuleC2>>,
     <<RuleAOpt, RuleAB>>,
     <<RuleA0, RuleAOpt, RuleBB>>}

InitGetOrCreate ==
    /\ default_resolution = DEFAULT_RESOLUTION_MODE
    /\ rules \in {Registered(rs) : rs \in GetScenarios}
    /\ container = <<>>
    /\ providers = <<>>
    /\ memo = EmptyMemo
    /\ last = NoCall
    /\ nres = 0
    /\ again = "no"
    /\ InitBuilder
    /\ InitAsyncBuilder
    /\ InitRegistry
    /\ InitContainer

NextGetOrCreate ==
    \/ \E t \in Types, mode \in CallModes, rev \in BOOLEAN : One(Key(t), mode, rev)
    \/ \E t \in Types, mode \in CallModes, rev \in BOOLEAN : All(Key(t), mode, rev)

SpecGetOrCreate == InitGetOrCreate /\ [][NextGetOrCreate]_vars

(***************************************************************************)
(* An application whose Builder saves into the container the resolver      *)
(* reads (Builder(save_to=container), as _SyncMixin builds it).            *)
(***************************************************************************)
\* type(value) of a built value, by the source of its Blueprint: the type
\* the rule returns, or the type of the instance the container offered.
TypeOfValue(cont, source) ==
    IF \E r \in AllRules : "rule::" \o r.canonical_name = source
    THEN (CHOOSE r \in AllRules : "rule::" \o r.canonical_name = source).output_type
    ELSE (CHOOSE w \in SeqToSet(cont) :
              "container::" \o w.instance_name = source).instance_type

\* Container._resolve_name: the first name <type>_<i> that is not taken.
resolve_name(cont, t) ==
    t \o "_" \o ToString(
        CHOOSE i \in 0..Len(cont) :
            /\ \A w \in SeqToSet(cont) : w.instance_name # t \o "_" \o ToString(i)
            /\ \A h \in 0..(i - 1) :
                 \E w \in SeqToSet(cont) : w.instance_name = t \o "_" \o ToString(h))

RECURSIVE SaveAll(_, _, _)
\* Container.__setitem__(Annotated[type(value), ProvidedBy(source)], value)
\* for each (source, value) pair the Builder saved, from pair number j.
SaveAll(cont, pairs, j) ==
    IF j > Len(pairs) THEN cont
    ELSE SaveAll(Append(cont, Wrapper(resolve_name(cont, TypeOfValue(cont, pairs[j][1])),
                                      TypeOfValue(cont, pairs[j][1]), FALSE, pairs[j][1])),
                 pairs, j + 1)

\* Builder.from_blueprint(blueprint) by a client, on a Blueprint the latest
\* resolve returned, the values saved into the container.
BuildSaving(i, rev) ==
    /\ nbuilds < MaxBuilds
    /\ last.op = "resolve" /\ last.exc = NoErr
    /\ i \in 1..Len(last.bps)
    /\ \E r \in {from_blueprint([cache |-> cache, calls |-> calls, saved |-> <<>>],
                                last.bps[i], rev)} :
       /\ cache' = r.st.cache
       /\ calls' = r.st.calls
       /\ saved' = saved \o r.st.saved
       /\ container' = SaveAll(container, r.st.saved, 1)
       /\ built' = [op |-> "build", key |-> BpKey(last.bps[i]),
                    bp |-> last.bps[i], exc |-> r.exc, value |-> r.value]
    /\ nbuilds' = nbuilds + 1
    /\ UNCHANGED <<default_resolution, rules, providers, memo, last, nres, again, got, asyncVars, registryVars, containerVars>>

\* BlueprintResolver.clear_memo()
ClearMemo ==
    /\ memo # EmptyMemo
    /\ memo' = EmptyMemo
    /\ last' = NoCall
    /\ nres' = 0
    /\ again' = "no"
    /\ UNCHANGED <<default_resolution, rules, container, providers, builderVars, asyncVars, registryVars, containerVars>>

\* Applications with rules for A and B, with and without an instance of A
\* or of B added by the user.
SinkScenarios ==
    {<<RuleA0, RuleBA, RuleB0>>,
     <<RuleA0, RuleAB>>}

InitSink ==
    /\ default_resolution \in {<<EXHAUSTIVE>>, <<UNIQUE>>}
    /\ rules \in {Registered(rs) : rs \in SinkScenarios}
    /\ container \in {<<>>, <<WA0>>, <<WB0>>}
    /\ providers = <<>>
    /\ memo = EmptyMemo
    /\ last = NoCall
    /\ nres = 0
    /\ again = "no"
    /\ InitBuilder
    /\ InitAsyncBuilder
    /\ InitRegistry
    /\ InitContainer

NextSink ==
    \/ \E t \in Types : Resolve(t)
    \/ \E i \in 1..Len(last.bps), rev \in BOOLEAN : BuildSaving(i, rev)
    \/ ClearMemo

SpecSink == InitSink /\ [][NextSink]_vars

(***************************************************************************)
(* A Container on its own, used by a client.                               *)
(***************************************************************************)
\* The objects a client holds: two of one class with different values, one
\* of a subclass, one of an unrelated class.
Instances ==
    {Instance("Base", "x"), Instance("Base", "y"),
     Instance("Derived", "z"), Instance("Other", "x")}

\* The names a client gives: none, or one of two.
NameInputs == {NoName, "n1", "n2"}

TheContainer == ContainerOf(mapping_by_name, mapping_by_type)

\* Container.add(instance, name=name, is_primary=is_primary) by a client
ContainerAdd(instance, name, is_primary, rev) ==
    /\ Cardinality(NamesHeld(TheContainer)) < MaxInstances
    /\ \E r \in {Container_add(TheContainer, instance, name, is_primary, rev)} :
        /\ mapping_by_name' = r.c.by_name
        /\ mapping_by_type' = r.c.by_type
        /\ cout' = [op |-> "add", instance |-> instance, name |-> name,
                    is_primary |-> is_primary, raises |-> r.raises]
    /\ UNCHANGED <<resolverVars, builderVars, asyncVars, registryVars>>

\* Container.remove(instance) by a client
ContainerRemove(instance, rev) ==
    /\ \E r \in {Container_remove(TheContainer, instance, rev)} :
        /\ mapping_by_name' = r.c.by_name
        /\ mapping_by_type' = r.c.by_type
        /\ cout' = [NoContainerOp EXCEPT !.op = "remove", !.instance = instance,
                                         !.raises = r.raises]
    /\ UNCHANGED <<resolverVars, builderVars, asyncVars, registryVars>>

\* Container.remove_by_name(name) by a client
ContainerRemoveByName(name, rev) ==
    /\ \E r \in {Container_remove_by_name(TheContainer, name, rev)} :
        /\ mapping_by_name' = r.c.by_name
        /\ mapping_by_type' = r.c.by_type
        /\ cout' = [NoContainerOp EXCEPT !.op = "remove_by_name", !.name = name,
                                         !.raises = r.raises]
    /\ UNCHANGED <<resolverVars, builderVars, asyncVars, registryVars>>

NextContainer ==
    \/ \E x \in Instances, n \in NameInputs, p \in BOOLEAN, rev \in BOOLEAN :
          ContainerAdd(x, n, p, rev)
    \/ \E x \in Instances, rev \in BOOLEAN : ContainerRemove(x, rev)
    \/ \E n \in NameInputs \ {NoName}, rev \in BOOLEAN : ContainerRemoveByName(n, rev)

\* A Container created empty.
InitContainerAlone ==
    /\ Init
    /\ default_resolution = DEFAULT_RESOLUTION_MODE
    /\ container = <<>>

SpecContainer == InitContainerAlone /\ [][NextContainer]_vars

(***************************************************************************)
(* A TypedRegistry with the default filterer and collator, on its own.     *)
(***************************************************************************)
\* The entries a client may register: entries of one type with different
\* attribute tags and priorities, an entry of a subclass, an unrelated one.
EntryUniverse ==
    {Entry("base", "Base", {}, 0),
     Entry("base_special", "Base", {"special"}, 0),
     Entry("base_first", "Base", {"special", "extra"}, 1),
     Entry("derived", "Derived", {}, 0),
     Entry("other", "Other", {"special"}, 0)}

\* The keys a client may look up.
LookupKeys ==
    {LookupKey(t, attrs, d) :
        t \in Classes, attrs \in {{}, {"special"}, {"extra"}},
        d \in {"none", "true", "false"}}

\* TypedRegistry.add_entry(entry), called by a client.
RegistryAdd(entry, rev) ==
    /\ \E r \in {TypedRegistry_add_entry(entries, entry, rev)} :
        /\ entries' = r.reg
        /\ regout' = [NoOp EXCEPT !.op = "add", !.entry = entry, !.raises = r.raises]
    /\ UNCHANGED <<resolverVars, builderVars, asyncVars, containerVars>>

\* TypedRegistry.remove_entry(entry), called by a client.
RegistryRemove(entry, rev) ==
    /\ \E r \in {TypedRegistry_remove_entry(entries, entry, rev)} :
        /\ entries' = r.reg
        /\ regout' = [NoOp EXCEPT !.op = "remove", !.entry = entry, !.raises = r.raises]
    /\ UNCHANGED <<resolverVars, builderVars, asyncVars, containerVars>>

\* TypedRegistry.get(key), called by a client.
Lookup(key) ==
    /\ regout' = [NoOp EXCEPT !.op = "get", !.key = key,
                                !.result = TypedRegistry_get(entries, key)]
    /\ UNCHANGED <<entries, resolverVars, builderVars, asyncVars, containerVars>>

NextRegistry ==
    \/ \E e \in EntryUniverse, rev \in BOOLEAN : RegistryAdd(e, rev)
    \/ \E e \in EntryUniverse, rev \in BOOLEAN : RegistryRemove(e, rev)
    \/ \E key \in LookupKeys : Lookup(key)

\* A TypedRegistry created without entries.
InitTypedRegistry ==
    /\ Init
    /\ default_resolution = DEFAULT_RESOLUTION_MODE
    /\ container = <<>>

SpecRegistry == InitTypedRegistry /\ [][NextRegistry]_vars

(***************************************************************************)
(* Properties.                                                             *)
(***************************************************************************)
Resolved == last.op = "resolve"
Succeeded == last.exc = NoErr
RaisedFailure == last.exc.type = "ResolutionFailureError"
ErrorsContain(exc, t) == \E i \in 1..Len(exc.errors) : exc.errors[i].type = t
NoRules == [t \in Types |-> <<>>]

\* The registry holds exactly the mutually dependent rules A->B and B->A.
OnlyCycle == rules = [NoRules EXCEPT !["A"] = <<RuleBA>>, !["B"] = <<RuleAB>>]

\* C1: with only the rules A->B and B->A and no other provider, resolve(A)
\* raises ResolutionFailureError whose errors contain a
\* CyclicDependencyError, and no Blueprint is returned.
C1_CycleRaises ==
    (Resolved /\ OnlyCycle /\ container = <<>> /\ last.key = Key("A"))
        => /\ RaisedFailure
           /\ ErrorsContain(last.exc, "CyclicDependencyError")
           /\ last.bps = <<>>

C1_Witness ==
    /\ Resolved /\ OnlyCycle /\ container = <<>> /\ last.key = Key("A")
    /\ RaisedFailure

\* The cycle A->B, B->A plus one independent zero-dependency provider of A:
\* the rule a0, registered before or after the rule B->A.
CyclePlusIndependent ==
    /\ rules["B"] = <<RuleAB>> /\ rules["C"] = <<>>
    /\ rules["A"] \in {<<RuleA0, RuleBA>>, <<RuleBA, RuleA0>>}
    /\ container = <<>>

C9_OnlyResolutionFailure ==
    Resolved => \/ (Succeeded /\ Len(last.bps) >= 1)
                \/ (RaisedFailure /\ last.bps = <<>>)

\* The key the resolver works on for the latest call: the target annotated
\* with the requested mode; its candidate constructors; the outcome of one
\* candidate taken alone.
TopKey == Annotate(last.key, last.mode[1])
TopPlans == raw_create_plans(providers, rules, container, TopKey).plans
RootTrace(plan) == << <<plan.source, "__root__", TopKey>> >>
Candidate(p) ==
    resolve_plan(EmptyMemo, Ctx, TopKey, "__root__", TopPlans[p], p - 1,
                 split_resolution(last.mode)[2], <<>>, <<>>)

\* Blueprints compared without the mode annotation of their own key.
StripType(bps) == [i \in 1..Len(bps) |-> [bps[i] EXCEPT !.output_type = NoKey]]
PrefixToNonOptional(bps) ==
    LET nonopt == {i \in 1..Len(bps) : ~bps[i].is_optional}
        k == IF nonopt = {} THEN Len(bps)
             ELSE CHOOSE i \in nonopt : \A j \in nonopt : i <= j
    IN SubSeq(bps, 1, k)

\* An error that fails one candidate without failing the resolution.
CandidateFailures ==
    {"NoConstructorError", "CyclicDependencyError", "ResolutionFailureError"}

RECURSIVE Conflict(_, _, _)
\* A key reached by a Unique resolution has more than one non-optional
\* Blueprint: the key itself, or a dependency of one of its candidates that
\* the resolution gets to (candidate not cyclic, no error escaped from an
\* earlier candidate, the candidate's earlier dependencies resolved).
Conflict(target, name, trace) ==
    LET e == resolve_exhaustive(EmptyMemo, Ctx, target, name, <<UNIQUE>>, trace, <<>>)
        raw == raw_create_plans(providers, rules, container, target)
        Escapes(q) ==
            LET o == resolve_plan(EmptyMemo, Ctx, target, name, raw.plans[q],
                                  q - 1, <<UNIQUE>>, trace, <<>>)
            IN o.exc # NoErr /\ o.exc.type \notin CandidateFailures
    IN \/ e.exc = NoErr /\ NonOptionalCount(e.bps) > 1
       \/ /\ raw.exc = NoErr
          /\ \E p \in 1..Len(raw.plans) :
                LET deps == raw.plans[p].dependencies
                    curr == <<raw.plans[p].source, name, target>>
                    tracing == Append(trace, curr)
                IN /\ ~SeqContains(trace, curr)
                   /\ \A q \in 1..(p - 1) : ~Escapes(q)
                   /\ \E j \in 1..Len(deps) :
                        /\ \A k \in 1..(j - 1) :
                              resolve_internal(EmptyMemo, Ctx, deps[k][2], deps[k][1],
                                               <<UNIQUE>>, tracing, <<>>).exc = NoErr
                        /\ Conflict(Annotate(deps[j][2], UNIQUE), deps[j][1], tracing)

\* C3: in Unique mode, when a key reached during the resolution (at any
\* depth) has more than one non-optional Blueprint, resolve raises
\* ResolutionFailureError holding a MultipleDependencyResolutionError.
C3_UniqueConflictRaises ==
    (Resolved /\ last.mode = <<UNIQUE>> /\ Conflict(TopKey, "__root__", <<>>))
        => /\ RaisedFailure /\ last.bps = <<>>
           /\ ErrorsContain(last.exc, "MultipleDependencyResolutionError")

\* The conflict is on a dependency's key, not on the requested key.
C3_Witness ==
    /\ Resolved /\ last.mode = <<UNIQUE>> /\ RaisedFailure
    /\ \E i \in 1..Len(last.exc.errors) :
          /\ last.exc.errors[i].type = "MultipleDependencyResolutionError"
          /\ last.exc.errors[i].key.type # last.key.type

\* The key's own candidates enumerated exhaustively, each dependency still
\* resolved in SelectFirst mode.
EnumFirst == resolve(EmptyMemo, Ctx, last.key, <<EXHAUSTIVE, SELECT_FIRST>>)

\* C4: SelectFirst returns the key's exhaustive enumeration cut after its
\* first non-optional Blueprint (the optional ones before it are kept), and
\* fails when the enumeration fails (every candidate is resolved, also those
\* after the first non-optional one); with several non-optional candidates
\* of which the first registered needs nothing, the result of a successful
\* enumeration is that candidate's Blueprint alone.
C4_SelectFirstPrefix ==
    (Resolved /\ last.mode = <<SELECT_FIRST>>)
        => /\ EnumFirst.exc # NoErr
                => (last.exc.type = EnumFirst.exc.type /\ last.bps = <<>>)
           /\ EnumFirst.exc = NoErr
                => /\ Succeeded
                   /\ StripType(last.bps) = PrefixToNonOptional(StripType(EnumFirst.bps))
           /\ ( /\ EnumFirst.exc = NoErr
                /\ Len(TopPlans) >= 2
                /\ \A p \in 1..Len(TopPlans) : ~TopPlans[p].is_optional
                /\ TopPlans[1].dependencies = <<>> )
                => last.bps = <<PlanBlueprint(TopPlans[1], <<>>, 0, 0, <<>>)>>

\* An optional Blueprint is kept before the non-optional one, a later
\* Blueprint is dropped.
C4_Witness ==
    /\ Resolved /\ last.mode = <<SELECT_FIRST>> /\ Succeeded
    /\ Len(last.bps) >= 2
    /\ Len(last.bps) < Len(EnumFirst.bps)

\* The key's own candidates enumerated exhaustively, each dependency still
\* resolved in Unique mode.
EnumUnique == resolve(EmptyMemo, Ctx, last.key, <<EXHAUSTIVE, UNIQUE>>)
UniqueApplies ==
    /\ Resolved /\ last.mode = <<UNIQUE>>
    /\ EnumUnique.exc = NoErr /\ NonOptionalCount(EnumUnique.bps) <= 1

\* C5 as stated: in Unique mode with at most one non-optional Blueprint the
\* result holds every optional Blueprint together with the non-optional one,
\* wherever the optional ones stand.
C5_Original ==
    UniqueApplies
        => /\ Succeeded
           /\ SeqToSet(StripType(last.bps)) = SeqToSet(StripType(EnumUnique.bps))

\* C5 amended: in Unique mode with at most one non-optional Blueprint the
\* result is the enumeration up to and including the non-optional Blueprint:
\* the optional Blueprints before it are kept, those after it are dropped.
C5_UniqueKeepsLeadingOptionals ==
    UniqueApplies
        => /\ Succeeded
           /\ StripType(last.bps) = PrefixToNonOptional(StripType(EnumUnique.bps))

C5_Witness ==
    /\ UniqueApplies /\ Succeeded
    /\ Len(last.bps) < Len(EnumUnique.bps)

\* The candidate Blueprints of dependency j of a candidate of the requested
\* key, as the resolver enumerates them below that candidate.
DepEnum(plan, j) ==
    resolve_internal(EmptyMemo, Ctx, plan.dependencies[j][2],
                     plan.dependencies[j][1], <<EXHAUSTIVE>>, RootTrace(plan), <<>>)

RECURSIVE ProductFrom(_, _)
ProductFrom(sizes, j) ==
    IF j > Len(sizes) THEN 1 ELSE sizes[j] * ProductFrom(sizes, j + 1)

\* Combination number i (from 0) picks this candidate (from 0) of dependency
\* j when the first dependency varies slowest.
Digit(sizes, i, j) == (i \div ProductFrom(sizes, j + 1)) % sizes[j]

FromPlan(p) == SelectSeq(last.bps, LAMBDA b : b.priority[1] = p - 1)

\* C6: in Exhaustive mode a constructor whose n dependencies have k1..kn
\* candidate Blueprints yields exactly k1*...*kn Blueprints, one per
\* combination, pairwise distinct, the first dependency varying slowest.
C6_CartesianProduct ==
    (Resolved /\ last.mode = <<EXHAUSTIVE>> /\ Succeeded)
        => \A p \in 1..Len(TopPlans) :
              LET plan == TopPlans[p]
                  n == Len(plan.dependencies)
                  mine == FromPlan(p)
              IN (n > 0) =>
                  IF \A j \in 1..n : DepEnum(plan, j).exc = NoErr
                  THEN LET sizes == [j \in 1..n |-> Len(DepEnum(plan, j).bps)] IN
                       /\ Len(mine) = ProductFrom(sizes, 1)
                       /\ \A i \in 1..Len(mine) :
                             /\ mine[i].priority = <<p - 1, i - 1>>
                             /\ mine[i].dependencies =
                                  {<<plan.dependencies[j][1],
                                     DepEnum(plan, j).bps[Digit(sizes, i - 1, j) + 1]>> :
                                       j \in 1..n}
                       /\ \A i1, i2 \in 1..Len(mine) :
                             (i1 # i2) => BpKey(mine[i1]) # BpKey(mine[i2])
                  ELSE mine = <<>>

\* Two dependencies with two candidates each: four Blueprints.
C6_Witness ==
    /\ Resolved /\ last.mode = <<EXHAUSTIVE>> /\ Succeeded
    /\ \E p \in 1..Len(TopPlans) :
          /\ Len(TopPlans[p].dependencies) = 2
          /\ \A j \in 1..2 : DepEnum(TopPlans[p], j).exc = NoErr
                             /\ Len(DepEnum(TopPlans[p], j).bps) = 2
          /\ Len(FromPlan(p)) = 4

\* C7: for a fixed registry resolve is deterministic: a repeated call, and a
\* call on a resolver without memo, give the same outcome; the Blueprints
\* come sorted by priority.
C7_Deterministic ==
    /\ again # "differs"
    /\ Resolved =>
          LET fresh == resolve(EmptyMemo, Ctx, last.key, last.mode) IN
          /\ fresh.exc = last.exc /\ fresh.bps = last.bps
          /\ \A i, j \in 1..Len(last.bps) :
                (i < j) => ~TupleLess(last.bps[j].priority, last.bps[i].priority)

C7_Witness ==
    /\ Resolved /\ again = "same" /\ Succeeded
    /\ Len(last.bps) >= 2
    /\ \E k \in DOMAIN memo : k.type = last.key.type

Failed(o) == o.exc.type \in CandidateFailures
Underlying(o) ==
    IF o.exc.type = "ResolutionFailureError" THEN o.exc.errors ELSE <<o.exc>>
SeveralCandidates ==
    /\ Resolved /\ Len(TopPlans) >= 2
    /\ \A p \in 1..Len(TopPlans) : Candidate(p).exc = NoErr \/ Failed(Candidate(p))

\* C8: of several candidates of a key, one that fails with NoConstructorError
\* or CyclicDependencyError in its chain is discarded alone: when a candidate
\* succeeds, Blueprints of the successful candidates are returned (in
\* Exhaustive mode all of them) and the failure raises nothing (in Unique
\* mode the uniqueness check still applies); ResolutionFailureError for the
\* failures is raised only when every candidate failed, and then holds the
\* underlying errors of every candidate.
C8_BranchLocalFailure ==
    SeveralCandidates =>
        LET P == 1..Len(TopPlans)
            good == ConcatAll([p \in P |-> Candidate(p).bps])
            bad == ConcatAll([p \in P |->
                      IF Failed(Candidate(p)) THEN Underlying(Candidate(p)) ELSE <<>>])
        IN /\ (\E p \in P : Candidate(p).exc = NoErr) =>
                 \/ /\ Succeeded /\ last.bps # <<>>
                    /\ SeqToSet(last.bps) \subseteq SeqToSet(good)
                    /\ last.mode = <<EXHAUSTIVE>> => last.bps = good
                 \/ /\ last.mode = <<UNIQUE>> /\ NonOptionalCount(good) > 1
                    /\ RaisedFailure /\ Len(last.exc.errors) = 1
                    /\ last.exc.errors[1].type = "MultipleDependencyResolutionError"
           /\ (\A p \in P : Failed(Candidate(p))) =>
                 /\ RaisedFailure /\ last.bps = <<>>
                 /\ last.exc.errors = bad

\* One candidate failed on a cycle, another one succeeded.
C8_Witness ==
    /\ SeveralCandidates /\ Succeeded
    /\ \E p \in 1..Len(TopPlans) :
          /\ Failed(Candidate(p))
          /\ \E i \in 1..Len(Underlying(Candidate(p))) :
                Underlying(Candidate(p))[i].type = "CyclicDependencyError"

\* C10 as stated: within one Builder, however often a Blueprint (or an equal
\* one, or one shared by several parents) is built, its constructor is
\* invoked exactly once.
C10_ConstructorInvokedOnce ==
    \A k \in DOMAIN calls : calls[k] = 1

\* The latest Builder.from_blueprint call was made on an async Blueprint.
BuiltAsync == built.op = "build" /\ built.bp.is_async

\* C12: Builder.from_blueprint on a Blueprint whose is_async flag is true
\* (its own constructor is async or one of its dependencies is) raises
\* AsyncBlueprintError, and the call invokes no constructor and leaves the
\* cache and the save sink as they were.
C12_AsyncBlueprintRefused ==
    [][(nbuilds' = nbuilds + 1 /\ built'.bp.is_async)
          => /\ built'.exc = "AsyncBlueprintError"
             /\ UNCHANGED <<cache, calls, saved>>]_vars

\* An async Blueprint with an async dependency was refused by a Builder
\* that had built and cached another Blueprint before.
C12_Witness ==
    /\ BuiltAsync /\ built.exc = "AsyncBlueprintError"
    /\ built.bp.dependencies # {}
    /\ cache # <<>> /\ saved # <<>>

\* The from_blueprint coroutines that have returned or raised.
ReturnedCoros == {id \in DOMAIN coros : coros[id].pc = "returned"}
TaskOf(id) == tasks[BpKey(coros[id].bp)]

\* C11: in one AsyncBuilder, however the coroutines for one Blueprint (by
\* equality) interleave, requested by clients or as a dependency shared by
\* other Blueprints, its constructor is invoked at most once, exactly once
\* when its Task ended with a result, and every coroutine that returned got
\* the outcome of that one Task.
C11_OneInvocation ==
    /\ DOMAIN acalls \subseteq DOMAIN tasks
    /\ \A k \in DOMAIN tasks :
          /\ CountOf(acalls, k) <= 1
          /\ (tasks[k].pc = "done" /\ tasks[k].exc = NoExc)
                => CountOf(acalls, k) = 1
    /\ \A id \in ReturnedCoros :
          /\ TaskOf(id).pc = "done"
          /\ coros[id].exc = TaskOf(id).exc
          /\ coros[id].value = TaskOf(id).value

\* A client and two parent Blueprints all awaited one Blueprint, and all
\* three got the value of its single invocation.
C11_Witness ==
    \E a \in ReturnedCoros, d \in ReturnedCoros, e \in ReturnedCoros :
        /\ a.parent = NoTask /\ d.parent # NoTask /\ e.parent # NoTask
        /\ d.parent # e.parent
        /\ BpKey(coros[a].bp) = BpKey(coros[d].bp)
        /\ BpKey(coros[a].bp) = BpKey(coros[e].bp)
        /\ coros[a].exc = NoExc /\ coros[a].value # None
        /\ acalls[BpKey(coros[a].bp)] = 1

ReturnsNone(bp) == RetOf(bp.constructor) = None

\* What a build whose constructor returned None must end with.
NoneOutcome(bp, exc, value) ==
    IF bp.is_optional
    THEN exc = NoExc /\ value = None
    ELSE exc = "NonOptionalBuilderMismatchError"

\* C13: when the constructor of a Blueprint was invoked and returned None,
\* the build returns None without error if the Blueprint is optional and
\* raises NonOptionalBuilderMismatchError if it is not, in the Builder and
\* in the AsyncBuilder, and no save sink ever holds None.
C13_NoneByOptionality ==
    /\ (built.op = "build" /\ built.key \in DOMAIN calls /\ ReturnsNone(built.bp))
          => NoneOutcome(built.bp, built.exc, built.value)
    /\ \A id \in ReturnedCoros :
          (BpKey(coros[id].bp) \in DOMAIN acalls /\ ReturnsNone(coros[id].bp))
             => NoneOutcome(coros[id].bp, coros[id].exc, coros[id].value)
    /\ \A i \in 1..Len(saved) : saved[i][2] # None
    /\ \A i \in 1..Len(asaved) : asaved[i][2] # None

\* The Builder returned None for an optional Blueprint with a dependency;
\* in the AsyncBuilder one client got None for an optional Blueprint and
\* another got the mismatch error for a non-optional one.
C13_Witness ==
    /\ built.op = "build" /\ ReturnsNone(built.bp) /\ built.bp.is_optional
    /\ built.bp.dependencies # {}
    /\ built.exc = NoExc /\ built.value = None /\ saved # <<>>
    /\ \E a \in ReturnedCoros, b \in ReturnedCoros :
          /\ a.parent = NoTask /\ b.parent = NoTask
          /\ ReturnsNone(coros[a].bp) /\ coros[a].bp.is_optional
          /\ coros[a].exc = NoExc /\ coros[a].value = None
          /\ ReturnsNone(coros[b].bp) /\ ~coros[b].bp.is_optional
          /\ coros[b].exc = "NonOptionalBuilderMismatchError"

\* The event loop has nothing left to run.
Quiescent ==
    /\ \A id \in DOMAIN coros : coros[id].pc = "returned"
    /\ \A k \in DOMAIN tasks : tasks[k].pc = "done"

\* One Blueprint of synchronous constructors was built once by the fresh
\* Builder and once, through the client coroutine id, by the fresh
\* AsyncBuilder.
BuiltByBoth(id) ==
    /\ nbuilds = 1 /\ built.op = "build" /\ ~built.bp.is_async
    /\ Clients = {id} /\ Quiescent
    /\ BpKey(coros[id].bp) = built.key

\* C14: for a Blueprint tree of synchronous constructors, a dependency that
\* builds to None included, a fresh Builder and a fresh AsyncBuilder end
\* with the same value or the same error after invoking the same
\* constructors.
C14_SameContract ==
    \A id \in DOMAIN coros :
        BuiltByBoth(id)
            => /\ coros[id].exc = built.exc
               /\ coros[id].value = built.value
               /\ DOMAIN acalls = DOMAIN calls

\* The Tasks whose build raised.
FailedTasks == {k \in DOMAIN tasks : tasks[k].pc = "done" /\ tasks[k].exc # NoExc}

\* The Tasks of the Blueprints that have the Blueprint of Task k as a
\* dependency.
ParentsOf(k) ==
    {p \in DOMAIN tasks : \E d \in tasks[p].bp.dependencies : BpKey(d[2]) = k}

\* C15: once the build of a Blueprint raised in an AsyncBuilder, every
\* coroutine that awaited it, before or after, gets that failure; a parent
\* Blueprint's constructor is not invoked and its Task ends with the same
\* failure; and the failed Blueprint's constructor is not invoked again.
C15_FailureShared ==
    \A k \in FailedTasks :
        /\ CountOf(acalls, k) <= 1
        /\ \A id \in ReturnedCoros :
              BpKey(coros[id].bp) = k => coros[id].exc = tasks[k].exc
        /\ \A p \in ParentsOf(k) :
              /\ CountOf(acalls, p) = 0
              /\ tasks[p].pc = "done" => tasks[p].exc = tasks[k].exc

\* One client got the failure of a Blueprint it awaited directly, another
\* got the same failure through a parent of that Blueprint.
C15_Witness ==
    \E k \in FailedTasks, a \in ReturnedCoros, b \in ReturnedCoros :
        /\ CountOf(acalls, k) = 1
        /\ a.parent = NoTask /\ BpKey(coros[a].bp) = k
        /\ b.parent = NoTask /\ BpKey(coros[b].bp) \in ParentsOf(k)
        /\ coros[a].exc = tasks[k].exc /\ coros[b].exc = tasks[k].exc

\* The bucket a lookup key selects.
BucketOf(key) == IF key.type \in DOMAIN entries THEN entries[key.type] ELSE <<>>

\* The entries of the selected bucket whose attributes include the tags
\* the key asks for.
Matching(key) ==
    SelectSeq(BucketOf(key), LAMBDA e : key.attributes \subseteq e.attributes)

TaggedLookup ==
    /\ regout.op = "get"
    /\ regout.key.attributes # {} /\ regout.key.disallow = "none"

\* C16: a lookup whose key carries attribute tags returns the entries of
\* the selected bucket whose attribute set includes the tags; when no entry
\* of the bucket matches it returns the whole bucket.
C16_TagsFilterOrFallBack ==
    TaggedLookup
        => regout.result = IF Matching(regout.key) # <<>>
                           THEN Matching(regout.key)
                           ELSE BucketOf(regout.key)

\* The entries of the selected bucket registered for the key's own type.
ExactEntries(key) ==
    SelectSeq(BucketOf(key), LAMBDA e : e.output_type = key.type)

UntaggedLookup == regout.op = "get" /\ regout.key.attributes = {}

\* C17: a lookup with DisallowSubclass (true) returns exactly the entries
\* registered for the key's own type, dropping those of a strict subtype;
\* with DisallowSubclass(False) or without the qualifier the entries of
\* subtypes are returned too.
C17_DisallowSubclassKeepsExact ==
    UntaggedLookup
        => regout.result = IF regout.key.disallow = "true"
                           THEN ExactEntries(regout.key)
                           ELSE BucketOf(regout.key)

\* The entry is in the bucket of every base type of its key.
InEveryBucket(reg, entry) ==
    \A b \in resolve_base_types(entry.output_type) :
        b \in DOMAIN reg /\ SeqContains(reg[b], entry)
InSomeBucket(reg, entry) ==
    \E b \in DOMAIN reg : SeqContains(reg[b], entry)

\* No bucket holds an entry twice, and no bucket is empty.
NoDuplicates ==
    \A b \in DOMAIN entries :
        /\ entries[b] # <<>>
        /\ \A i, j \in 1..Len(entries[b]) :
              entries[b][i] = entries[b][j] => i = j

\* C18: add_entry raises DuplicatedEntryError exactly when an equal entry
\* is registered, and then leaves every bucket as it was; otherwise it
\* raises nothing and the entry is in the bucket of each of its base
\* types.  After any add_entry/remove_entry no bucket holds two equal
\* entries.
C18_DuplicateRejected ==
    /\ []NoDuplicates
    /\ [][regout'.op = "add"
            => IF InSomeBucket(entries, regout'.entry)
               THEN /\ regout'.raises = "DuplicatedEntryError"
                    /\ entries' = entries
               ELSE /\ regout'.raises = "none"
                    /\ InEveryBucket(entries', regout'.entry)]_vars

\* A duplicate of an entry with two base types was rejected while its
\* buckets also hold other entries.
C18_Witness ==
    /\ regout.op = "add" /\ regout.raises = "DuplicatedEntryError"
    /\ Cardinality(resolve_base_types(regout.entry.output_type)) = 2
    /\ InEveryBucket(entries, regout.entry)
    /\ \E b \in DOMAIN entries : Len(entries[b]) >= 3

\* What resolve gives for the key of the latest call when computed from
\* the current rules and providers, without a memo.
Recomputed == resolve(EmptyMemo, Ctx, last.key, NoMode)

\* C19: after a provider was registered on the resolver, by a call that
\* succeeded or that raised part-way, or a rule was registered, the next
\* resolve(key) gives what the current providers and rules give: the memo
\* serves no candidates computed before the registration.
C19_MemoBarrier ==
    Resolved => (last.exc = Recomputed.exc /\ last.bps = Recomputed.bps)

\* The container holds one value for the key, and it is not tagged
\* ProvidedBy.
HoldsOwnValue(cont, key) ==
    /\ Len(WrappersOf(cont, key)) = 1
    /\ WrappersOf(cont, key)[1].provided_by = "none"

\* What the claim gives for provide_for_type(key) = r on the container.
SingleOrNothing(cont, key, r) ==
    /\ r.exc = NoErr
    /\ IF HoldsOwnValue(cont, key)
       THEN Len(r.plans) = 1 /\ r.plans[1].dependencies = <<>>
       ELSE r.plans = <<>>

\* C20: ContainerInstanceProvider.provide_for_type(key) yields exactly one
\* zero-dependency Constructor when the container holds a value for key
\* that is not tagged ProvidedBy; in every other container state (no value,
\* several values, only builder-saved values) it yields nothing and raises
\* no error.
C20_ContainerProvideNeverRaises ==
    \A t \in Types :
        SingleOrNothing(container, Key(t), ContainerProvide(container, Key(t)))

\* Blueprints as Blueprint.__eq__ compares them.
BpKeys(bps) == [i \in 1..Len(bps) |-> BpKey(bps[i])]

\* The outcome of a resolve call, by what a caller can tell apart: the error
\* raised and the Blueprints returned.
SameOutcome(r, exc, bps) == r.exc.type = exc.type /\ BpKeys(r.bps) = BpKeys(bps)

\* The mode of the depth below the one mode starts at.
NextModeOf(mode) == split_resolution(mode)[2]

CexDependencies(bps) ==
    {BpKey(d[2]) : d \in UNION {bps[i].dependencies :
                                   i \in {j \in 1..Len(bps) : bps[j].constructor = "cex"}}}

RECURSIVE Yields(_)
\* Building the Blueprint gives a value: its constructor returns one and
\* every dependency gives one.
Yields(bp) ==
    /\ RetOf(bp.constructor) # None
    /\ \A d \in bp.dependencies : Yields(d[2])

\* The first of the plans that gives a value (0 when none does).
FirstYielding(plans) ==
    IF \E j \in 1..Len(plans) : Yields(plans[j])
    THEN CHOOSE j \in 1..Len(plans) :
             Yields(plans[j]) /\ \A h \in 1..(j - 1) : ~Yields(plans[h])
    ELSE 0

\* The step is a call one(...) that resolved without error.
OneStep == got'.op = "one" /\ nbuilds' = nbuilds + 1

\* Two non-optional rules are registered for the type, the first of them
\* without parameters.
TwoNonOptionalRules(t) ==
    /\ Len(rules[t]) = 2
    /\ \A i \in 1..2 : ~rules[t][i].is_optional
    /\ rules[t][1].parameter_types = <<>>

\* The Builder was handed none of the plans from number j on.
NotBuiltFrom(plans, j) ==
    \A h \in j..Len(plans) :
        CountOf(calls', BpKey(plans[h])) = CountOf(calls, BpKey(plans[h]))

\* C22: get_or_create.one(T, mode) raises MultipleResolutionError and
\* builds nothing when the resolved Blueprints hold more than one
\* non-optional Blueprint; with mode SelectFirst and two non-optional rules
\* it returns the value of the first-registered rule; otherwise it builds
\* the selected Blueprints in order and returns the first value that is not
\* None, without building any later one.
C22_OneSelectsAndBuilds ==
    [][OneStep =>
        /\ NonOptionalCount(got'.resolved) > 1
             => /\ got'.exc = "MultipleResolutionError"
                /\ UNCHANGED <<cache, calls, saved>>
        /\ (got'.mode = <<SELECT_FIRST>> /\ TwoNonOptionalRules(got'.key.type))
             => /\ got'.exc = NoExc
                /\ got'.value = RetOf(rules[got'.key.type][1].canonical_name)
        /\ FirstYielding(got'.selected) > 0
             => /\ got'.exc = NoExc
                /\ got'.attempts = FirstYielding(got'.selected)
                /\ got'.value = RetOf(got'.selected[got'.attempts].constructor)
                /\ NotBuiltFrom(got'.selected, got'.attempts + 1)
    ]_vars

\* one(A, Exhaustive) with two non-optional Blueprints for A raised
\* MultipleResolutionError.
C22_Witness ==
    /\ got.op = "one" /\ got.exc = "MultipleResolutionError"
    /\ got.mode = <<EXHAUSTIVE>>
    /\ NonOptionalCount(got.resolved) = 2

RECURSIVE GroupValues(_)
\* One value per group of Blueprints: that of the group's first Blueprint
\* that gives a value; a group without such a Blueprint gives none.
GroupValues(groups) ==
    IF groups = <<>> THEN <<>>
    ELSE (IF FirstYielding(Head(groups)) > 0
          THEN <<RetOf(Head(groups)[FirstYielding(Head(groups))].constructor)>>
          ELSE <<>>) \o GroupValues(Tail(groups))

\* The top-level candidate constructors of the resolved Blueprints, in
\* candidate order.
TopConstructors(bps) == [g \in 1..Len(GroupBy(bps)) |-> GroupBy(bps)[g][1].constructor]

\* C23: get_or_create.all(T, mode) enumerates the top-level candidates for
\* T exhaustively whatever mode is given, and returns one built value per
\* top-level candidate constructor, in candidate order.
C23_AllReturnsEachCandidate ==
    (got.op = "all" /\ got.resolved # <<>>)
        => /\ TopConstructors(got.resolved)
                = TopConstructors(resolve(EmptyMemo, Ctx, got.key, <<EXHAUSTIVE>>).bps)
           /\ got.exc = NoExc
           /\ got.values = GroupValues(GroupBy(got.resolved))

\* The flags of the constructor a Blueprint names: those of the rule it was
\* made from; a stored instance is neither async nor optional.
ConstructorAsync(c) == \E r \in AllRules : r.canonical_name = c /\ r.is_async
ConstructorOptional(c) == \E r \in AllRules : r.canonical_name = c /\ r.is_optional

RECURSIVE TreeConstructors(_)
\* The constructors of a Blueprint and of all Blueprints below it.
TreeConstructors(bp) ==
    {bp.constructor} \cup UNION {TreeConstructors(d[2]) : d \in bp.dependencies}

RECURSIVE FlagsOfTree(_)
\* At every node of the tree the flags are those of the constructor or-ed
\* with those of the chosen dependency Blueprints.
FlagsOfTree(bp) ==
    /\ bp.is_async <=> (ConstructorAsync(bp.constructor)
                          \/ \E d \in bp.dependencies : d[2].is_async)
    /\ bp.is_optional <=> (ConstructorOptional(bp.constructor)
                             \/ \E d \in bp.dependencies : d[2].is_optional)
    /\ \A d \in bp.dependencies : FlagsOfTree(d[2])

\* C24: every Blueprint the resolver emits is async exactly when its
\* constructor or one of its chosen dependency Blueprints is async, and
\* optional exactly when its constructor or one of its chosen dependency
\* Blueprints is optional; so the root's flag is the OR of the flags of all
\* constructors in the tree.
C24_FlagsAreOrOfTree ==
    \A i \in 1..Len(last.bps) :
        /\ FlagsOfTree(last.bps[i])
        /\ last.bps[i].is_async
              <=> \E c \in TreeConstructors(last.bps[i]) : ConstructorAsync(c)
        /\ last.bps[i].is_optional
              <=> \E c \in TreeConstructors(last.bps[i]) : ConstructorOptional(c)

\* A Blueprint whose constructor is not async is async through its
\* dependency.
C24_Witness ==
    \E i \in 1..Len(last.bps) :
        /\ last.bps[i].is_async
        /\ ~ConstructorAsync(last.bps[i].constructor)
        /\ last.bps[i].dependencies # {}

\* The bucket is ascending by Entry.ordering.
Ascending(bucket) ==
    \A i, j \in 1..Len(bucket) :
        i < j => ~TupleLess(Ordering(bucket[j]), Ordering(bucket[i]))

SortedBuckets == \A k \in DOMAIN entries : Ascending(entries[k])

\* From one state of a bucket to the next the entries that stay keep their
\* order, and an entry that comes in stands behind every entry of its rank.
OrderKept(old, new) ==
    /\ SelectSeq(new, LAMBDA e : SeqContains(old, e))
         = SelectSeq(old, LAMBDA e : SeqContains(new, e))
    /\ \A p, q \in 1..Len(new) :
         (p < q /\ ~SeqContains(old, new[p]))
             => Ordering(new[q]) # Ordering(new[p])

\* C25: after any sequence of add_entry and remove_entry every bucket of a
\* TypedRegistry is sorted ascending by (-priority, number of ancestors of
\* the entry's key), entries of equal rank in the order of their insertion:
\* higher priority first and, among equal priority, less derived first.
C25_BucketsStaySorted ==
    /\ []SortedBuckets
    /\ [][\A k \in DOMAIN entries \cap DOMAIN entries' :
             OrderKept(entries[k], entries'[k])]_vars

\* An entry of priority 1 added to a bucket that held entries of priority
\* 0, one of them of a subclass, stands first; the subclass entry last.
C25_Witness ==
    /\ regout.op = "add" /\ regout.raises = "none"
    /\ regout.entry.priority = 1
    /\ "Base" \in DOMAIN entries
    /\ Len(entries["Base"]) >= 4
    /\ entries["Base"][1] = regout.entry
    /\ entries["Base"][Len(entries["Base"])].output_type = "Derived"

\* The names under which the type is requested: the parameters of the
\* registered rules that have the type, and "__root__" for the type of the
\* latest resolve call.
RequestNames(t) ==
    {rules[u][i].parameter_types[j][1] :
        <<u, i, j>> \in {x \in Types \X (1..MaxRules) \X (1..2) :
            /\ x[2] <= Len(rules[x[1]])
            /\ x[3] <= Len(rules[x[1]][x[2]].parameter_types)
            /\ rules[x[1]][x[2]].parameter_types[x[3]][2].type = t}}
        \cup (IF last.key.type = t THEN {"__root__"} ELSE {})

\* The (source, parameter name, key) triples of the application, the keys
\* annotated with the mode of the latest resolve call.
TraceTriples ==
    UNION {{<<p.source, n, Annotate(Key(t), last.mode[1])>> :
               p \in SeqToSet(raw_create_plans(providers, rules, container,
                                               Annotate(Key(t), last.mode[1])).plans),
               n \in RequestNames(t)} : t \in Types}

RECURSIVE ErrorTraces(_)
\* The traces recorded in an error and in the errors it carries.
ErrorTraces(exc) ==
    {exc.traces} \cup UNION {ErrorTraces(exc.errors[i]) : i \in 1..Len(exc.errors)}

RECURSIVE Depth(_)
\* The number of Blueprints on the longest path from the root to a leaf.
Depth(bp) ==
    IF bp.dependencies = {} THEN 1
    ELSE 1 + (CHOOSE n \in 1..(Cardinality(TraceTriples) + MaxRules + 1) :
                  /\ \E d \in bp.dependencies : Depth(d[2]) = n
                  /\ \A d \in bp.dependencies : Depth(d[2]) <= n)

\* C26: resolve(key, mode) terminates for every finite set of providers
\* and rules, cycles of any length and self-dependent rules included: the
\* recursion never goes deeper than the number of distinct (source,
\* parameter name, key) triples plus one, so no trace and no Blueprint is
\* longer than that.
C26_DepthBounded ==
    Resolved
        => /\ \A tr \in ErrorTraces(last.exc) :
                /\ Len(tr) <= Cardinality(TraceTriples) + 1
                /\ \A i \in 1..Len(tr) : tr[i] \in TraceTriples
           /\ \A i \in 1..Len(last.bps) :
                Depth(last.bps[i]) <= Cardinality(TraceTriples)

\* With the rules A from B and B from A, resolve(A) went as deep as the
\* three triples plus one before the cycle was cut.
C26_Witness ==
    /\ Resolved /\ OnlyCycle /\ last.key = Key("A")
    /\ Cardinality(TraceTriples) = 3
    /\ \E tr \in ErrorTraces(last.exc) : Len(tr) = 4

RECURSIVE NoRepeatBelow(_, _)
\* On no path from the Blueprint down does a (constructor, output key)
\* pair occur that is in seen or occurred higher on the path.
NoRepeatBelow(bp, seen) ==
    /\ <<bp.constructor, bp.output_type>> \notin seen
    /\ \A d \in bp.dependencies :
         NoRepeatBelow(d[2], seen \cup {<<bp.constructor, bp.output_type>>})

\* C27: in every Blueprint returned by resolve no constructor occurs twice
\* for the same output key along a path from the root to a leaf, the
\* constructor of the root, traced under the name "__root__", included.
C27_NoRepeatOnPath ==
    Resolved => \A i \in 1..Len(last.bps) : NoRepeatBelow(last.bps[i], {})

\* The wrappers the user added: those without a ProvidedBy attribute.
UserAdded(cont) == SelectSeq(cont, LAMBDA w : w.provided_by = "none")

\* Resolving the key afresh (no memo) on the container cont.
Afresh(cont, key) ==
    resolve(EmptyMemo, [Ctx EXCEPT !.container = cont], key, NoMode)

\* C28: building a Blueprint with a Builder that saves into the container
\* behind the resolver's ContainerInstanceProvider does not change what
\* later resolves: for every key a resolution computed afresh after the
\* build has the same outcome (the same Blueprints or the same error) as
\* one computed afresh before it, and Container.get for a type with one
\* user-added instance still returns that instance.
C28_SavingChangesNoResolution ==
    [][nbuilds' = nbuilds + 1 =>
        \A t \in Types :
            /\ Afresh(container', Key(t)).exc.type = Afresh(container, Key(t)).exc.type
            /\ Afresh(container', Key(t)).bps = Afresh(container, Key(t)).bps
            /\ (/\ Len(WrappersOf(UserAdded(container), Key(t))) = 1
                /\ get_wrapper(container, Key(t)).raises = "none")
                 => get_wrapper(container', Key(t)) = get_wrapper(container, Key(t))]_vars

\* The container after the step.
TheContainerAfter == ContainerOf(mapping_by_name', mapping_by_type')

\* get_by_name, get and get_all return after the step what they returned
\* before it.
SameLookups ==
    /\ \A n \in NameInputs \cup NamesHeld(TheContainer) :
         Container_get_by_name(TheContainerAfter, n) = Container_get_by_name(TheContainer, n)
    /\ \A t \in Classes :
         /\ Container_get(TheContainerAfter, t) = Container_get(TheContainer, t)
         /\ Container_get_all(TheContainerAfter, t) = Container_get_all(TheContainer, t)

\* Every instance stored before the step is retrievable after it, by its
\* name and among the instances of its type.
StillRetrievable ==
    \A n \in DOMAIN mapping_by_name :
        /\ Container_get_by_name(TheContainerAfter, n).raises = "none"
        /\ Container_get_by_name(TheContainerAfter, n).instance
             = mapping_by_name[n].instance
        /\ \E i \in 1..Len(Container_get_all(TheContainerAfter,
                                              mapping_by_name[n].instance_type)) :
             Container_get_all(TheContainerAfter, mapping_by_name[n].instance_type)[i]
               = mapping_by_name[n].instance

\* The container holds instances of x's type, none of them equal to x.
HoldsOthersOnly(x) ==
    /\ WrappersOfType(TheContainer, x.class) # <<>>
    /\ \A i \in 1..Len(WrappersOfType(TheContainer, x.class)) :
         WrappersOfType(TheContainer, x.class)[i].instance # x

\* C29: Container.remove(x) removes only a wrapper whose instance equals x:
\* when the container holds other instances of x's type but none equal to
\* x, every stored instance is still retrievable after the call and the
\* by-name and by-type indexes are unchanged.
C29_RemoveOnlyEqualInstance ==
    [][(cout'.op = "remove" /\ HoldsOthersOnly(cout'.instance))
         => /\ StillRetrievable
            /\ UNCHANGED <<mapping_by_name, mapping_by_type>>]_vars

\* C30: a Container.add call that raises ConflictingInstanceNameError or
\* MultiplePrimaryInstanceError leaves the container unchanged: get_by_name,
\* get and get_all return what they returned before, and the by-name index
\* and the by-type registry hold exactly the same wrappers.
C30_FailedAddChangesNothing ==
    [][(/\ cout'.op = "add"
        /\ cout'.raises \in {"ConflictingInstanceNameError",
                              "MultiplePrimaryInstanceError"})
         => /\ SameLookups
            /\ UNCHANGED <<mapping_by_name, mapping_by_type>>]_vars
====
